---- MODULE Spec2Model ----
(***************************************************************************)
(* Link lifecycle and action queueing of the Mastodon transport:           *)
(* Link (Link.cpp), LinkMap (LinkMap.cpp) and PluginMastodon               *)
(* (PluginMastodon.cpp).  Every method is a pure operator that maps the    *)
(* object's fields and the call's arguments to the new fields, the value   *)
(* returned, the SDK callbacks made and the content-host calls made; the   *)
(* actions apply these operators to the state.                             *)
(***************************************************************************)
EXTENDS Integers, Sequences, FiniteSets, TLC

VARIABLES
    links,                \* LinkMap::links of PluginMastodon::links: LinkID -> Link
    actionToLinkIdMap,    \* PluginMastodon::actionToLinkIdMap: actionId -> LinkID
    contentTypeMap,       \* PluginMastodon::contentTypeMap: actionId -> MIME type
    nextAvailableHashTag, \* PluginMastodon::nextAvailableHashTag
    channelProperties,    \* PluginMastodon::channelProperties (maxLinks, currentRole.linkSide)
    mastodonClient,       \* PluginMastodon::mastodonClient is non-null
    serverReceived,       \* PluginMastodon::serverReceived
    tokenReceived,        \* PluginMastodon::tokenReceived
    call,                 \* the operation last invoked, with its arguments
    ret,                  \* what that invocation returned
    sdkCalls,             \* the ITransportSdk callbacks it made, in order
    hostCalls,            \* the MastodonClient calls it made, in order
    componentState,       \* the ComponentState the host was last told by sdk->updateState
    queue,                \* MessageHashQueue::queue: the hashes, oldest first
    max,                  \* MessageHashQueue::max
    mutex,                \* LinkMap::mutex: the host thread that holds it, or "free"
    threads               \* per host thread: where it is in its call, and its locals

vars == <<links, actionToLinkIdMap, contentTypeMap, nextAvailableHashTag,
          channelProperties, mastodonClient, serverReceived, tokenReceived,
          call, ret, sdkCalls, hostCalls, componentState, queue, max, mutex, threads>>

pluginVars == <<actionToLinkIdMap, contentTypeMap, nextAvailableHashTag,
                channelProperties, mastodonClient, serverReceived, tokenReceived>>

threadVars == <<mutex, threads>>

hashVars == <<queue, max>>

(***************************************************************************)
(* Bounds and input sets                                                   *)
(***************************************************************************)
MaxHandles == 2
MaxResults == 3
MaxHashTag == 2
MaxMaxLinks == 2

LinkIds == {"L1", "L2"}
ActionIds == {7, 8}
Contents == {<<>>, <<104, 105>>, <<255, 216>>}
MimeTypes == {"text/plain", "image/jpeg", "image/png"}
HandleVectors == {[i \in 1..n |-> i] : n \in 0..MaxHandles}
SearchItems ==
    {[contentType |-> m, data |-> d] :
        m \in MimeTypes, d \in {<<104, 105>>, <<255, 216>>}}
SeqsUpTo(S, n) == UNION {[1..k -> S] : k \in 0..n}

(***************************************************************************)
(* Finite maps (std::unordered_map)                                        *)
(***************************************************************************)
EmptyMap == [k \in {} |-> TRUE]
MapPut(m, k, v) == [x \in DOMAIN m \cup {k} |-> IF x = k THEN v ELSE m[x]]
MapErase(m, k) == [x \in DOMAIN m \ {k} |-> m[x]]

(***************************************************************************)
(* Link                                                                    *)
(***************************************************************************)
ActionContent ==
    [textContent |-> <<>>, imageContent |-> <<>>, hasText |-> FALSE, hasImage |-> FALSE]

\* contentQueue[actionId]: std::unordered_map::operator[] default-constructs
QueueAt(contentQueue, actionId) ==
    IF actionId \in DOMAIN contentQueue THEN contentQueue[actionId] ELSE ActionContent

\* history is not a field of the class: it records, per action id, the last
\* operation that touched the buffered record (see Traced)
Link(id, addr, client) ==
    [linkId |-> id, address |-> addr, mastodonClient |-> client, contentQueue |-> EmptyMap,
     history |-> EmptyMap]

\* mutant: only the first handle is reported
Link_updatePackageStatus_FirstOnly(handles, status) ==
    [i \in 1..(IF Len(handles) > 0 THEN 1 ELSE 0) |->
        [cb |-> "onPackageStatusChanged", handle |-> handles[i], status |-> status]]

Link_updatePackageStatus(handles, status) ==
    [i \in 1..Len(handles) |->
        [cb |-> "onPackageStatusChanged", handle |-> handles[i], status |-> status]]

\* mutant: contentQueue[actionId] is evaluated before the type is looked at
Link_enqueueContent_TouchesRecord(link, actionId, content, contentType) ==
    LET touched == [link EXCEPT !.contentQueue = MapPut(@, actionId, QueueAt(@, actionId))]
    IN  IF contentType = "text/plain" THEN
            [link |-> [touched EXCEPT !.contentQueue[actionId].textContent = content,
                                      !.contentQueue[actionId].hasText = TRUE],
             ret |-> "COMPONENT_OK", sdkCalls |-> <<>>, hostCalls |-> <<>>]
        ELSE IF contentType = "image/jpeg" THEN
            [link |-> [touched EXCEPT !.contentQueue[actionId].imageContent = content,
                                      !.contentQueue[actionId].hasImage = TRUE],
             ret |-> "COMPONENT_OK", sdkCalls |-> <<>>, hostCalls |-> <<>>]
        ELSE
            [link |-> touched, ret |-> "COMPONENT_ERROR", sdkCalls |-> <<>>,
             hostCalls |-> <<>>]

\* mutant: a slot that is filled keeps its bytes (the first call wins)
Link_enqueueContent_KeepsFirst(link, actionId, content, contentType) ==
    LET old == QueueAt(link.contentQueue, actionId)
    IN  IF contentType = "text/plain" THEN
            [link |-> [link EXCEPT !.contentQueue =
                          MapPut(@, actionId,
                                 [old EXCEPT !.textContent = IF old.hasText THEN @ ELSE content,
                                             !.hasText = TRUE])],
             ret |-> "COMPONENT_OK", sdkCalls |-> <<>>, hostCalls |-> <<>>]
        ELSE IF contentType = "image/jpeg" THEN
            [link |-> [link EXCEPT !.contentQueue =
                          MapPut(@, actionId,
                                 [old EXCEPT !.imageContent = IF old.hasImage THEN @ ELSE content,
                                             !.hasImage = TRUE])],
             ret |-> "COMPONENT_OK", sdkCalls |-> <<>>, hostCalls |-> <<>>]
        ELSE
            [link |-> link, ret |-> "COMPONENT_ERROR", sdkCalls |-> <<>>, hostCalls |-> <<>>]

\* mutant: the image bytes are stored but hasImage is not set
Link_enqueueContent_ImageUnflagged(link, actionId, content, contentType) ==
    IF contentType = "text/plain" THEN
        [link |-> [link EXCEPT !.contentQueue =
                      MapPut(@, actionId,
                             [QueueAt(@, actionId) EXCEPT !.textContent = content,
                                                          !.hasText = TRUE])],
         ret |-> "COMPONENT_OK", sdkCalls |-> <<>>, hostCalls |-> <<>>]
    ELSE IF contentType = "image/jpeg" THEN
        [link |-> [link EXCEPT !.contentQueue =
                      MapPut(@, actionId,
                             [QueueAt(@, actionId) EXCEPT !.imageContent = content])],
         ret |-> "COMPONENT_OK", sdkCalls |-> <<>>, hostCalls |-> <<>>]
    ELSE
        [link |-> link, ret |-> "COMPONENT_ERROR", sdkCalls |-> <<>>, hostCalls |-> <<>>]

Link_enqueueContent(link, actionId, content, contentType) ==
    IF contentType = "text/plain" THEN
        [link |-> [link EXCEPT !.contentQueue =
                      MapPut(@, actionId,
                             [QueueAt(@, actionId) EXCEPT !.textContent = content,
                                                          !.hasText = TRUE])],
         ret |-> "COMPONENT_OK", sdkCalls |-> <<>>, hostCalls |-> <<>>]
    ELSE IF contentType = "image/jpeg" THEN
        [link |-> [link EXCEPT !.contentQueue =
                      MapPut(@, actionId,
                             [QueueAt(@, actionId) EXCEPT !.imageContent = content,
                                                          !.hasImage = TRUE])],
         ret |-> "COMPONENT_OK", sdkCalls |-> <<>>, hostCalls |-> <<>>]
    ELSE
        [link |-> link, ret |-> "COMPONENT_ERROR", sdkCalls |-> <<>>, hostCalls |-> <<>>]

\* mutant: a dequeue of an action id with no record is an error
Link_dequeueContent_AbsentIsError(link, actionId) ==
    [link |-> [link EXCEPT !.contentQueue = MapErase(@, actionId)],
     ret |-> IF actionId \in DOMAIN link.contentQueue THEN "COMPONENT_OK"
             ELSE "COMPONENT_ERROR",
     sdkCalls |-> <<>>, hostCalls |-> <<>>]

\* mutant: the whole pending-content map is emptied
Link_dequeueContent_ClearsAll(link, actionId) ==
    [link |-> [link EXCEPT !.contentQueue = EmptyMap],
     ret |-> "COMPONENT_OK", sdkCalls |-> <<>>, hostCalls |-> <<>>]

\* mutant: the record stays in the queue
Link_dequeueContent_KeepsRecord(link, actionId) ==
    [link |-> link, ret |-> "COMPONENT_OK", sdkCalls |-> <<>>, hostCalls |-> <<>>]

Link_dequeueContent(link, actionId) ==
    [link |-> [link EXCEPT !.contentQueue = MapErase(@, actionId)],
     ret |-> "COMPONENT_OK", sdkCalls |-> <<>>, hostCalls |-> <<>>]

\* mutant: the if-chain tests hasText before the combined case
Link_postCall_TextFirst(content, hashtag) ==
    IF content.hasText THEN
        <<[fn |-> "postStatus", text |-> content.textContent, hashtag |-> hashtag]>>
    ELSE IF content.hasImage /\ content.hasText THEN
        <<[fn |-> "postImageWithText", image |-> content.imageContent,
           text |-> content.textContent, hashtag |-> hashtag]>>
    ELSE IF content.hasImage THEN
        <<[fn |-> "postImage", image |-> content.imageContent, hashtag |-> hashtag]>>
    ELSE <<>>

\* the transmission selected by the presence flags (Link::post, the if-chain)
Link_postCall(content, hashtag) ==
    IF content.hasImage /\ content.hasText THEN
        <<[fn |-> "postImageWithText", image |-> content.imageContent,
           text |-> content.textContent, hashtag |-> hashtag]>>
    ELSE IF content.hasImage THEN
        <<[fn |-> "postImage", image |-> content.imageContent, hashtag |-> hashtag]>>
    ELSE IF content.hasText THEN
        <<[fn |-> "postStatus", text |-> content.textContent, hashtag |-> hashtag]>>
    ELSE <<>>

\* mutant: the record is kept after a successful post
Link_postResult_KeepOnSuccess(link, handles, actionId, success) ==
    IF success THEN
        [link |-> link, ret |-> "COMPONENT_OK",
         sdkCalls |-> Link_updatePackageStatus(handles, "PACKAGE_SENT")]
    ELSE
        [link |-> link, ret |-> "COMPONENT_ERROR",
         sdkCalls |-> Link_updatePackageStatus(handles, "PACKAGE_FAILED_GENERIC")]

\* mutant: the record is erased whatever the content host answered
Link_postResult_EraseOnFailure(link, handles, actionId, success) ==
    IF success THEN
        [link |-> [link EXCEPT !.contentQueue = MapErase(@, actionId)],
         ret |-> "COMPONENT_OK",
         sdkCalls |-> Link_updatePackageStatus(handles, "PACKAGE_SENT")]
    ELSE
        [link |-> [link EXCEPT !.contentQueue = MapErase(@, actionId)],
         ret |-> "COMPONENT_ERROR",
         sdkCalls |-> Link_updatePackageStatus(handles, "PACKAGE_FAILED_GENERIC")]

\* the tail of Link::post, once the content host has answered
Link_postResult(link, handles, actionId, success) ==
    IF success THEN
        [link |-> [link EXCEPT !.contentQueue = MapErase(@, actionId)],
         ret |-> "COMPONENT_OK",
         sdkCalls |-> Link_updatePackageStatus(handles, "PACKAGE_SENT")]
    ELSE
        [link |-> link, ret |-> "COMPONENT_ERROR",
         sdkCalls |-> Link_updatePackageStatus(handles, "PACKAGE_FAILED_GENERIC")]

\* mutant: a missing record is an error that reports nothing
Link_postNoContent_Silent(link, handles) ==
    [link |-> link, ret |-> "COMPONENT_ERROR", sdkCalls |-> <<>>, hostCalls |-> <<>>]

\* the branch of Link::post taken when contentQueue.find(actionId) fails
Link_postNoContent(link, handles) ==
    [link |-> link, ret |-> "COMPONENT_OK",
     sdkCalls |-> Link_updatePackageStatus(handles, "PACKAGE_FAILED_GENERIC"),
     hostCalls |-> <<>>]

\* success: what the content host answers if it is called
Link_post(link, handles, actionId, success) ==
    IF actionId \notin DOMAIN link.contentQueue THEN Link_postNoContent(link, handles)
    ELSE
        LET content == link.contentQueue[actionId]
            hashtag == "#" \o link.address.hashtag
            calls == Link_postCall(content, hashtag)
        IN  IF calls = <<>> THEN
                [link |-> link, ret |-> "COMPONENT_ERROR",
                 sdkCalls |-> Link_updatePackageStatus(handles, "PACKAGE_FAILED_GENERIC"),
                 hostCalls |-> <<>>]
            ELSE
                LET r == Link_postResult(link, handles, actionId, success)
                IN  [link |-> r.link, ret |-> r.ret, sdkCalls |-> r.sdkCalls,
                     hostCalls |-> <<[request |-> calls[1], result |-> success]>>]

\* the items of one MIME type, in retrieval order (Link::fetch, the first loop)
Link_fetchSelect(results, contentType) ==
    SelectSeq(results, LAMBDA c : c.contentType = contentType)

Link_onReceive(linkId, items) ==
    [i \in 1..Len(items) |->
        [cb |-> "onReceive", linkId |-> linkId,
         params |-> [linkId |-> linkId, type |-> items[i].contentType,
                     encodePackage |-> FALSE, json |-> ""],
         bytes |-> items[i].data]]

\* mutant: the image loop runs before the text loop
Link_fetchDeliveries_ImageFirst(linkId, textContent, imageContent) ==
    Link_onReceive(linkId, imageContent) \o Link_onReceive(linkId, textContent)

\* the order of the two delivery loops of Link::fetch
Link_fetchDeliveries(linkId, textContent, imageContent) ==
    Link_onReceive(linkId, textContent) \o Link_onReceive(linkId, imageContent)

\* results: what MastodonClient::searchStatuses returns
Link_fetch(link, results) ==
    LET hashtag == "#" \o link.address.hashtag
        textContent == Link_fetchSelect(results, "text/plain")
        imageContent == Link_fetchSelect(results, "image/jpeg")
    IN  [link |-> link, ret |-> "COMPONENT_OK",
         sdkCalls |-> Link_fetchDeliveries(link.linkId, textContent, imageContent),
         hostCalls |-> <<[request |-> [fn |-> "searchStatuses", hashtag |-> hashtag],
                          result |-> results]>>]

(***************************************************************************)
(* History of a buffered record: "enqueued" after an accepted enqueue,     *)
(* "removed" after a dequeue that erased a record, "sent" after a post     *)
(* the content host accepted, "failed" after a post it refused, "retried"  *)
(* after a refused post of a record whose previous post was refused too.   *)
(* An action id that was never enqueued has no history.                    *)
(***************************************************************************)
Traced(op, link, actionId, r) ==
    LET present == actionId \in DOMAIN link.contentQueue
        old == IF actionId \in DOMAIN link.history THEN link.history[actionId] ELSE "none"
        new == CASE op = "enqueueContent" /\ r.ret = "COMPONENT_OK" -> "enqueued"
                 [] op = "dequeueContent" /\ present -> "removed"
                 [] op = "post" /\ present /\ r.ret = "COMPONENT_OK" -> "sent"
                 [] op = "post" /\ present /\ r.ret # "COMPONENT_OK" ->
                        IF old \in {"failed", "retried"} THEN "retried" ELSE "failed"
                 [] OTHER -> old
    IN  IF new = "none" THEN r
        ELSE [r EXCEPT !.link.history = MapPut(@, actionId, new)]

(***************************************************************************)
(* Direct calls on a Link held by the registry                             *)
(***************************************************************************)
LinkCall(l, r, c) ==
    /\ links' = [links EXCEPT ![l] = r.link]
    /\ call' = c
    /\ ret' = r.ret
    /\ sdkCalls' = r.sdkCalls
    /\ hostCalls' = r.hostCalls
    /\ UNCHANGED componentState
    /\ UNCHANGED hashVars
    /\ UNCHANGED pluginVars
    /\ UNCHANGED threadVars

LinkEnqueueContent ==
    \E l \in DOMAIN links, a \in ActionIds, content \in Contents, contentType \in MimeTypes :
        LinkCall(l, Traced("enqueueContent", links[l], a,
                           Link_enqueueContent(links[l], a, content, contentType)),
                 [op |-> "Link.enqueueContent", linkId |-> l, actionId |-> a,
                  content |-> content, contentType |-> contentType])

\* MIME types that differ from the two accepted ones in case, spelling or parameters
OtherMimeTypes == {"", "TEXT/PLAIN", "image/jpg", "text/plain; charset=utf-8"}

LinkEnqueueOther ==
    \E l \in DOMAIN links, a \in ActionIds, contentType \in OtherMimeTypes :
        LinkCall(l, Traced("enqueueContent", links[l], a,
                           Link_enqueueContent(links[l], a, <<104, 105>>, contentType)),
                 [op |-> "Link.enqueueContent", linkId |-> l, actionId |-> a,
                  content |-> <<104, 105>>, contentType |-> contentType])

LinkDequeueContent ==
    \E l \in DOMAIN links, a \in ActionIds :
        LinkCall(l, Traced("dequeueContent", links[l], a, Link_dequeueContent(links[l], a)),
                 [op |-> "Link.dequeueContent", linkId |-> l, actionId |-> a])

LinkPost ==
    \E l \in DOMAIN links, handles \in HandleVectors, a \in ActionIds, success \in BOOLEAN :
        LinkCall(l, Traced("post", links[l], a, Link_post(links[l], handles, a, success)),
                 [op |-> "Link.post", linkId |-> l, actionId |-> a, handles |-> handles])

LinkFetch(ResultSets) ==
    \E l \in DOMAIN links, results \in ResultSets :
        LinkCall(l, Link_fetch(links[l], results),
                 [op |-> "Link.fetch", linkId |-> l])

LinkFetchShort == LinkFetch(SeqsUpTo(SearchItems, 1))

LinkFetchAll == LinkFetch(SeqsUpTo(SearchItems, MaxResults))

NoCall == [op |-> "none"]

\* the state the host holds after the callbacks sdk: the one of the last
\* updateState among them, else the one it held
StateTold(state, sdk) ==
    LET told == {i \in 1..Len(sdk) : sdk[i].cb = "updateState"}
    IN  IF told = {} THEN state
        ELSE sdk[CHOOSE i \in told : \A j \in told : j <= i].state

\* the host threads that call into the transport, and a thread that is in no call
Threads == {"T1", "T2"}
Idle ==
    [pc |-> "idle", method |-> "", op |-> "none", linkId |-> "", linkMap |-> EmptyMap,
     fetched |-> <<>>, cur |-> "", value |-> <<>>]

InitPlugin ==
    /\ actionToLinkIdMap = EmptyMap
    /\ contentTypeMap = EmptyMap
    /\ nextAvailableHashTag = 0
    /\ call = NoCall
    /\ ret = "none"
    /\ sdkCalls = <<>>
    /\ hostCalls = <<>>
    /\ mutex = "free"
    /\ threads = [t \in Threads |-> Idle]
    /\ queue = <<>>
    /\ max = 0

\* one Link, as PluginMastodon::createLinkInstance constructs it, and the
\* calls of its public interface
InitLink ==
    /\ InitPlugin
    /\ channelProperties = [maxLinks |-> 0, linkSide |-> "LS_BOTH"]
    /\ mastodonClient = TRUE
    /\ serverReceived = TRUE
    /\ tokenReceived = TRUE
    /\ componentState = "COMPONENT_STATE_STARTED"
    /\ links = [l \in {"L1"} |-> Link(l, [hashtag |-> "pqrstuv0"], TRUE)]

NextLink ==
    \/ LinkEnqueueContent
    \/ LinkEnqueueOther
    \/ LinkDequeueContent
    \/ LinkPost
    \/ LinkFetchShort

SpecLink == InitLink /\ [][NextLink]_vars

\* Link::fetch alone, on every search result up to MaxResults items
NextFetch == LinkFetchAll

SpecFetch == InitLink /\ [][NextFetch]_vars

(***************************************************************************)
(* MessageHashQueue: the window of the hashes of the messages seen last.   *)
(* std::hash maps messages to std::size_t values and is not injective:     *)
(* the messages "m1" and "m4" stand for two messages with the same hash.   *)
(***************************************************************************)
MaxMax == 2
Messages == {"m1", "m2", "m3", "m4"}
hash(message) ==
    CASE message = "m1" -> 11
      [] message = "m2" -> 12
      [] message = "m3" -> 13
      [] OTHER -> 11
Hashes == {hash(m) : m \in Messages} \cup {14}

\* std::find(queue.begin(), queue.end(), h): the first position of h, 0 for end()
find(q, h) ==
    IF \E i \in 1..Len(q) : q[i] = h
    THEN CHOOSE i \in 1..Len(q) : q[i] = h /\ \A j \in 1..(i - 1) : q[j] # h
    ELSE 0

\* pop_front on an empty deque does not occur: size() > max >= 0
MessageHashQueue_addMessage(q, m, message) ==
    [queue |-> Append(IF Len(q) > m THEN Tail(q) ELSE q, hash(message)),
     ret |-> hash(message)]

MessageHashQueue_removeHash(q, h) ==
    LET i == find(q, h)
    IN  [queue |-> IF i # 0 THEN SubSeq(q, 1, i - 1) \o SubSeq(q, i + 1, Len(q)) ELSE q,
         ret |-> "void"]

\* mutant: only the matching hash is erased
MessageHashQueue_findAndRemoveMessage_OneOnly(q, message) ==
    LET i == find(q, hash(message))
    IN  [queue |-> IF i # 0 THEN SubSeq(q, 1, i - 1) \o SubSeq(q, i + 1, Len(q)) ELSE q,
         ret |-> i # 0]

\* queue.erase(queue.begin(), iter + 1)
MessageHashQueue_findAndRemoveMessage(q, message) ==
    LET i == find(q, hash(message))
    IN  [queue |-> IF i # 0 THEN SubSeq(q, i + 1, Len(q)) ELSE q,
         ret |-> i # 0]

HashCall(r, c) ==
    /\ queue' = r.queue
    /\ call' = c
    /\ ret' = r.ret
    /\ sdkCalls' = <<>>
    /\ hostCalls' = <<>>
    /\ UNCHANGED <<max, links, componentState>>
    /\ UNCHANGED pluginVars
    /\ UNCHANGED threadVars

AddMessage ==
    \E message \in Messages :
        HashCall(MessageHashQueue_addMessage(queue, max, message),
                 [op |-> "addMessage", message |-> message])

RemoveHash ==
    \E h \in Hashes :
        HashCall(MessageHashQueue_removeHash(queue, h), [op |-> "removeHash", hash |-> h])

FindAndRemoveMessage ==
    \E message \in Messages :
        HashCall(MessageHashQueue_findAndRemoveMessage(queue, message),
                 [op |-> "findAndRemoveMessage", message |-> message])

NextHash ==
    \/ AddMessage
    \/ RemoveHash
    \/ FindAndRemoveMessage

(***************************************************************************)
(* Action descriptors (Action::json).  A JSON document is empty text,      *)
(* text that nlohmann::json::parse rejects, or an object; a value of an    *)
(* object is a string or a number.                                         *)
(***************************************************************************)
JString(s) == [t |-> "string", v |-> s]
JNumber(s) == [t |-> "number", v |-> s]
JsonEmpty == [kind |-> "empty", fields |-> EmptyMap]
JsonGarbage == [kind |-> "garbage", fields |-> EmptyMap]
JsonObject(fields) == [kind |-> "object", fields |-> fields]

ActionObject(type, linkId) ==
    JsonObject([f \in {"type", "linkId"} |-> IF f = "type" THEN type ELSE linkId])

ActionObjectWithHint(type, linkId, hint) ==
    JsonObject([f \in {"type", "linkId", "contentType"} |->
                  CASE f = "type" -> type [] f = "linkId" -> linkId [] OTHER -> hint])

\* conversion of a parsed object to ActionJson {linkId, type}: a missing
\* field or a linkId that is no string throws; a type that is neither
\* "post" nor "fetch" converts to ACTION_UNDEF
ActionJson_from_json(fields) ==
    IF {"type", "linkId"} \subseteq DOMAIN fields /\ fields["linkId"].t = "string" THEN
        [thrown |-> FALSE, linkId |-> fields["linkId"].v,
         type |-> IF fields["type"] = JString("post") THEN "ACTION_POST"
                  ELSE IF fields["type"] = JString("fetch") THEN "ACTION_FETCH"
                  ELSE "ACTION_UNDEF"]
    ELSE [thrown |-> TRUE, linkId |-> "", type |-> "ACTION_UNDEF"]

\* nlohmann::json::parse(action.json) followed by the conversion
ParseAction(json) ==
    IF json.kind = "object" THEN ActionJson_from_json(json.fields)
    ELSE [thrown |-> TRUE, linkId |-> "", type |-> "ACTION_UNDEF"]

(***************************************************************************)
(* LinkMap                                                                 *)
(***************************************************************************)
NullLink == [linkId |-> "", isNull |-> TRUE]
LinkMap_size(m) == Cardinality(DOMAIN m)
LinkMap_clear(m) == EmptyMap

\* mutant: an entry that exists is kept (insert instead of assignment)
LinkMap_add_KeepExisting(m, link) ==
    IF link.linkId \in DOMAIN m THEN m ELSE MapPut(m, link.linkId, link)

LinkMap_add(m, link) == MapPut(m, link.linkId, link)
\* LinkMap::get throws std::out_of_range exactly when this is false
LinkMap_has(m, linkId) == linkId \in DOMAIN m
LinkMap_get(m, linkId) == m[linkId]
LinkMap_getMap(m) == m
LinkMap_remove(m, linkId) ==
    IF linkId \in DOMAIN m THEN [links |-> MapErase(m, linkId), value |-> m[linkId]]
    ELSE [links |-> m, value |-> NullLink]

(***************************************************************************)
(* PluginMastodon: link management.  p holds the fields of the object.     *)
(***************************************************************************)
Plugin ==
    [links |-> links, actionToLinkIdMap |-> actionToLinkIdMap,
     contentTypeMap |-> contentTypeMap, nextAvailableHashTag |-> nextAvailableHashTag,
     channelProperties |-> channelProperties, mastodonClient |-> mastodonClient,
     serverReceived |-> serverReceived, tokenReceived |-> tokenReceived]

Result(p, r, sdk, host) == [p |-> p, ret |-> r, sdkCalls |-> sdk, hostCalls |-> host]

OnLinkStatusChanged(handle, linkId, status) ==
    [cb |-> "onLinkStatusChanged", handle |-> handle, linkId |-> linkId, status |-> status]

\* the handles the constructor got from sdk->requestPluginUserInput
mastodonServerHandle == 1
accessTokenHandle == 2

\* the response is stored and handed to the MastodonClient constructor; it is
\* never interpreted by the transport
Plugin_onUserInputReceived(p, handle, answered) ==
    IF ~answered THEN Result(p, "COMPONENT_ERROR", <<>>, <<>>)
    ELSE IF handle \notin {mastodonServerHandle, accessTokenHandle} THEN
        Result(p, "COMPONENT_ERROR", <<>>, <<>>)
    ELSE
        LET p1 == IF handle = mastodonServerHandle THEN [p EXCEPT !.serverReceived = TRUE]
                  ELSE [p EXCEPT !.tokenReceived = TRUE]
        IN  IF p1.serverReceived /\ p1.tokenReceived /\ ~p1.mastodonClient THEN
                Result([p1 EXCEPT !.mastodonClient = TRUE], "COMPONENT_OK",
                       <<[cb |-> "updateState", state |-> "COMPONENT_STATE_STARTED"]>>, <<>>)
            ELSE Result(p1, "COMPONENT_OK", <<>>, <<>>)

Digits == <<"0", "1", "2", "3", "4", "5", "6", "7", "8", "9">>
RECURSIVE to_string(_)
to_string(n) == IF n < 10 THEN Digits[n + 1] ELSE to_string(n \div 10) \o Digits[(n % 10) + 1]

\* mutant: the registry may grow to maxLinks + 1
TooManyLinks_OffByOne(numLinks, maxLinks) == maxLinks > 0 /\ numLinks > maxLinks

\* the capacity test of preLinkCreate
TooManyLinks(numLinks, maxLinks) == maxLinks > 0 /\ numLinks >= maxLinks

\* mutant: an undefined role side passes the check
preLinkCreate_UndefAllowed(p, handle, linkId, invalideRoleLinkSide) ==
    LET numLinks == LinkMap_size(p.links)
    IN  IF TooManyLinks(numLinks, p.channelProperties.maxLinks) THEN
            [ok |-> FALSE, sdkCalls |-> <<OnLinkStatusChanged(handle, linkId, "LINK_DESTROYED")>>]
        ELSE IF p.channelProperties.linkSide = invalideRoleLinkSide THEN
            [ok |-> FALSE, sdkCalls |-> <<OnLinkStatusChanged(handle, linkId, "LINK_DESTROYED")>>]
        ELSE [ok |-> TRUE, sdkCalls |-> <<>>]

preLinkCreate(p, handle, linkId, invalideRoleLinkSide) ==
    LET numLinks == LinkMap_size(p.links)
    IN  IF TooManyLinks(numLinks, p.channelProperties.maxLinks) THEN
            [ok |-> FALSE, sdkCalls |-> <<OnLinkStatusChanged(handle, linkId, "LINK_DESTROYED")>>]
        ELSE IF \/ p.channelProperties.linkSide = "LS_UNDEF"
                \/ p.channelProperties.linkSide = invalideRoleLinkSide THEN
            [ok |-> FALSE, sdkCalls |-> <<OnLinkStatusChanged(handle, linkId, "LINK_DESTROYED")>>]
        ELSE [ok |-> TRUE, sdkCalls |-> <<>>]

\* mutant: the status is reported but the link is not registered
postLinkCreate_ReportOnly(p, handle, linkId, link, linkStatus) ==
    IF link = NullLink THEN
        Result(p, "COMPONENT_ERROR",
               <<OnLinkStatusChanged(handle, linkId, "LINK_DESTROYED")>>, <<>>)
    ELSE
        Result(p, "COMPONENT_OK", <<OnLinkStatusChanged(handle, linkId, linkStatus)>>, <<>>)

postLinkCreate(p, handle, linkId, link, linkStatus) ==
    IF link = NullLink THEN
        Result(p, "COMPONENT_ERROR",
               <<OnLinkStatusChanged(handle, linkId, "LINK_DESTROYED")>>, <<>>)
    ELSE
        Result([p EXCEPT !.links = LinkMap_add(@, link)], "COMPONENT_OK",
               <<OnLinkStatusChanged(handle, linkId, linkStatus)>>, <<>>)

\* mutant: the new instance takes over what the registered one buffers
createLinkInstance_KeepsQueue(p, linkId, address) ==
    IF linkId \in DOMAIN p.links
    THEN [Link(linkId, address, p.mastodonClient) EXCEPT
             !.contentQueue = p.links[linkId].contentQueue]
    ELSE Link(linkId, address, p.mastodonClient)

createLinkInstance(p, linkId, address) == Link(linkId, address, p.mastodonClient)

\* mutant: the hashtag counter is advanced before the check
Plugin_createLink_CountsFirst(p, handle, linkId) ==
    LET p1 == [p EXCEPT !.nextAvailableHashTag = @ + 1]
        pre == preLinkCreate(p, handle, linkId, "LS_LOADER")
    IN  IF ~pre.ok THEN Result(p1, "COMPONENT_ERROR", pre.sdkCalls, <<>>)
        ELSE
            LET address == [hashtag |-> "pqrstuv" \o to_string(p.nextAvailableHashTag)]
                link == createLinkInstance(p1, linkId, address)
            IN  postLinkCreate(p1, handle, linkId, link, "LINK_CREATED")

\* mutant: the counter is read but not advanced
Plugin_createLink_ReusesTag(p, handle, linkId) ==
    LET pre == preLinkCreate(p, handle, linkId, "LS_LOADER")
    IN  IF ~pre.ok THEN Result(p, "COMPONENT_ERROR", pre.sdkCalls, <<>>)
        ELSE
            LET address == [hashtag |-> "pqrstuv" \o to_string(p.nextAvailableHashTag)]
                link == createLinkInstance(p, linkId, address)
            IN  postLinkCreate(p, handle, linkId, link, "LINK_CREATED")

\* the timestamp of the generated address is read from the clock and never
\* interpreted; the address is modelled by its hashtag
Plugin_createLink(p, handle, linkId) ==
    LET pre == preLinkCreate(p, handle, linkId, "LS_LOADER")
    IN  IF ~pre.ok THEN Result(p, "COMPONENT_ERROR", pre.sdkCalls, <<>>)
        ELSE
            LET address == [hashtag |-> "pqrstuv" \o to_string(p.nextAvailableHashTag)]
                p1 == [p EXCEPT !.nextAvailableHashTag = @ + 1]
                link == createLinkInstance(p1, linkId, address)
            IN  postLinkCreate(p1, handle, linkId, link, "LINK_CREATED")

(***************************************************************************)
(* Serialized link addresses: text that nlohmann::json::parse rejects, or  *)
(* the object {hashtag, maxTries, timestamp}                               *)
(***************************************************************************)
AddressGarbage == [kind |-> "garbage", hashtag |-> ""]
AddressObject(hashtag) == [kind |-> "object", hashtag |-> hashtag]

\* nlohmann::json::parse(linkAddress) followed by the conversion to LinkAddress
LinkAddress_from_json(linkAddress) ==
    IF linkAddress.kind = "object"
    THEN [thrown |-> FALSE, address |-> [hashtag |-> linkAddress.hashtag]]
    ELSE [thrown |-> TRUE, address |-> [hashtag |-> ""]]

\* the part shared by loadLinkAddress and createLinkFromAddress once the
\* check has passed; the parse is outside any try block
LinkFromAddress(p, handle, linkId, linkAddress, linkStatus) ==
    LET parsed == LinkAddress_from_json(linkAddress)
    IN  IF parsed.thrown THEN Result(p, "THROWS nlohmann::json::exception", <<>>, <<>>)
        ELSE postLinkCreate(p, handle, linkId,
                            createLinkInstance(p, linkId, parsed.address), linkStatus)

Plugin_loadLinkAddress(p, handle, linkId, linkAddress) ==
    LET pre == preLinkCreate(p, handle, linkId, "LS_CREATOR")
    IN  IF ~pre.ok THEN Result(p, "COMPONENT_OK", pre.sdkCalls, <<>>)
        ELSE LinkFromAddress(p, handle, linkId, linkAddress, "LINK_LOADED")

\* the addresses are not looked at: multi-address loading is not supported
Plugin_loadLinkAddresses(p, handle, linkId) ==
    Result(p, "COMPONENT_ERROR", <<OnLinkStatusChanged(handle, linkId, "LINK_DESTROYED")>>,
           <<>>)

Plugin_createLinkFromAddress(p, handle, linkId, linkAddress) ==
    LET pre == preLinkCreate(p, handle, linkId, "LS_LOADER")
    IN  IF ~pre.ok THEN Result(p, "COMPONENT_OK", pre.sdkCalls, <<>>)
        ELSE LinkFromAddress(p, handle, linkId, linkAddress, "LINK_CREATED")

\* mutant: the link is shut down but stays registered
Plugin_destroyLink_KeepsLink(p, handle, linkId) ==
    LET removed == LinkMap_remove(p.links, linkId)
    IN  IF removed.value = NullLink THEN Result(p, "COMPONENT_ERROR", <<>>, <<>>)
        ELSE Result(p, "COMPONENT_OK", <<>>, <<>>)

Plugin_destroyLink(p, handle, linkId) ==
    LET removed == LinkMap_remove(p.links, linkId)
    IN  IF removed.value = NullLink THEN Result(p, "COMPONENT_ERROR", <<>>, <<>>)
        ELSE Result([p EXCEPT !.links = removed.links], "COMPONENT_OK", <<>>, <<>>)

(***************************************************************************)
(* PluginMastodon: the action protocol                                     *)
(***************************************************************************)
EncodingParameters(linkId, type) ==
    [linkId |-> linkId, type |-> type, encodePackage |-> TRUE, json |-> ""]

UpdateState(state) == [cb |-> "updateState", state |-> state]

\* the MIME type chosen from the contentType hint (a hint that is not
\* recognised leaves the default)
ContentTypeForHint(typeHint) ==
    IF typeHint \in {"image", "jpg", "jpeg"} THEN "image/jpeg"
    ELSE IF typeHint = "text" THEN "text/plain"
    ELSE "text/plain"

\* mutant: the image parameter is emitted first
MixedParameters_ImageFirst(linkId) ==
    <<EncodingParameters(linkId, "image/jpeg"), EncodingParameters(linkId, "text/plain")>>

\* the two parameters of a mixed POST, fragment 0 and fragment 1
MixedParameters(linkId) ==
    <<EncodingParameters(linkId, "text/plain"), EncodingParameters(linkId, "image/jpeg")>>

\* the switch on actionParams.type that ends getActionParams
ParametersForType(p, actionParams, contentType) ==
    CASE actionParams.type = "ACTION_FETCH" -> Result(p, <<>>, <<>>, <<>>)
      [] actionParams.type = "ACTION_POST" ->
            Result(p, <<EncodingParameters(actionParams.linkId, contentType)>>, <<>>, <<>>)
      [] OTHER -> Result(p, <<>>, <<UpdateState("COMPONENT_STATE_FAILED")>>, <<>>)

Plugin_getActionParams(p, action) ==
    IF action.json.kind = "empty" THEN
        Result(p, <<>>, <<UpdateState("COMPONENT_STATE_FAILED")>>, <<>>)
    ELSE
        LET actionParams == ParseAction(action.json)
            fields == action.json.fields
        IN  IF actionParams.thrown THEN Result(p, <<>>, <<>>, <<>>)
            ELSE IF "contentType" \notin DOMAIN fields THEN
                ParametersForType(p, actionParams, "text/plain")
            ELSE IF fields["contentType"].t # "string" THEN
                \* get<std::string>() throws, caught as nlohmann::json::exception
                Result(p, <<>>, <<>>, <<>>)
            ELSE
                LET typeHint == fields["contentType"].v
                IN  IF typeHint \in {"mixed", "text+image"}
                       /\ actionParams.type = "ACTION_FETCH" THEN
                        Result(p, <<>>, <<>>, <<>>)
                    ELSE IF typeHint \in {"mixed", "text+image"}
                            /\ actionParams.type = "ACTION_POST" THEN
                        Result(p, MixedParameters(actionParams.linkId), <<>>, <<>>)
                    ELSE ParametersForType(p, actionParams, ContentTypeForHint(typeHint))

\* mutant: only the action-to-link entry is written
RecordCorrelation_LinkOnly(p, actionId, params) ==
    [p EXCEPT !.actionToLinkIdMap = MapPut(@, actionId, params.linkId)]

\* the two correlation entries written by enqueueContent
RecordCorrelation(p, actionId, params) ==
    [p EXCEPT !.actionToLinkIdMap = MapPut(@, actionId, params.linkId),
              !.contentTypeMap = MapPut(@, actionId, params.type)]

\* mutant: only the action-to-link entry is erased
EraseCorrelation_ActionOnly(p, actionId) ==
    [p EXCEPT !.actionToLinkIdMap = MapErase(@, actionId)]

\* the two correlation entries erased by dequeueContent and doAction
EraseCorrelation(p, actionId) ==
    [p EXCEPT !.actionToLinkIdMap = MapErase(@, actionId),
              !.contentTypeMap = MapErase(@, actionId)]

\* a call of a Link method on the registered link linkId
OnLink(p, linkId, r) ==
    Result([p EXCEPT !.links[linkId] = r.link], r.ret, r.sdkCalls, r.hostCalls)

Plugin_enqueueContent(p, params, action, content) ==
    IF content = <<>> THEN Result(p, "COMPONENT_OK", <<>>, <<>>)
    ELSE IF action.json.kind = "empty" THEN Result(p, "COMPONENT_ERROR", <<>>, <<>>)
    ELSE
        LET actionParams == ParseAction(action.json)
            p1 == RecordCorrelation(p, action.actionId, params)
        IN  IF actionParams.thrown THEN Result(p, "COMPONENT_ERROR", <<>>, <<>>)
            ELSE IF actionParams.type = "ACTION_FETCH" THEN
                Result(p1, "COMPONENT_OK", <<>>, <<>>)
            ELSE IF actionParams.type = "ACTION_POST" THEN
                IF ~LinkMap_has(p1.links, params.linkId) THEN
                    \* std::out_of_range is no nlohmann::json::exception: not caught
                    Result(p1, "THROWS std::out_of_range", <<>>, <<>>)
                ELSE
                    OnLink(p1, params.linkId,
                           Link_enqueueContent(LinkMap_get(p1.links, params.linkId),
                                               action.actionId, content, params.type))
            ELSE Result(p1, "COMPONENT_ERROR", <<>>, <<>>)

\* mutant: the wildcard is looked up with find, as doAction does, and an
\* action that is not bound is skipped
UnboundDequeue_Skips(p, actionId) ==
    Result([p EXCEPT !.contentTypeMap = MapErase(@, actionId)], "COMPONENT_OK", <<>>, <<>>)

\* the wildcard dequeue of an action id that is not bound:
\* actionToLinkIdMap.at throws before anything is erased, caught as std::exception
UnboundDequeue(p, actionId) == Result(p, "COMPONENT_ERROR", <<>>, <<>>)

Plugin_dequeueContent(p, action) ==
    IF action.json.kind = "empty" THEN Result(p, "COMPONENT_ERROR", <<>>, <<>>)
    ELSE
        LET actionParams == ParseAction(action.json)
        IN  IF actionParams.thrown THEN Result(p, "COMPONENT_ERROR", <<>>, <<>>)
            ELSE IF actionParams.linkId = "*"
                    /\ action.actionId \notin DOMAIN p.actionToLinkIdMap THEN
                UnboundDequeue(p, action.actionId)
            ELSE
                LET linkId == IF actionParams.linkId = "*"
                              THEN p.actionToLinkIdMap[action.actionId]
                              ELSE actionParams.linkId
                    p1 == EraseCorrelation(p, action.actionId)
                IN  IF actionParams.type = "ACTION_POST" THEN
                        IF ~LinkMap_has(p1.links, linkId) THEN
                            Result(p1, "COMPONENT_ERROR", <<>>, <<>>)
                        ELSE
                            OnLink(p1, linkId,
                                   Link_dequeueContent(LinkMap_get(p1.links, linkId),
                                                       action.actionId))
                    ELSE Result(p1, "COMPONENT_OK", <<>>, <<>>)

\* link.second->fetch() as the loop of doAction sees it: the calls the Link
\* makes and the ComponentStatus it hands back (Link::fetch of Link.cpp
\* hands back COMPONENT_OK)
FetchReturning(r, status) == [r EXCEPT !.ret = status]

\* mutant: the loop returns at the first status that is not COMPONENT_OK
RECURSIVE FetchSweep_StopOnError(_, _, _, _, _, _, _)
FetchSweep_StopOnError(linkMap, order, env, i, status, sdk, host) ==
    IF i > Len(order) THEN [ret |-> status, sdkCalls |-> sdk, hostCalls |-> host]
    ELSE
        LET r == FetchReturning(Link_fetch(linkMap[order[i]], env.results[order[i]]),
                                env.fetchStatus[order[i]])
        IN  IF r.ret # "COMPONENT_OK" THEN
                [ret |-> r.ret, sdkCalls |-> sdk \o r.sdkCalls,
                 hostCalls |-> host \o r.hostCalls]
            ELSE
                FetchSweep_StopOnError(linkMap, order, env, i + 1, status,
                                       sdk \o r.sdkCalls, host \o r.hostCalls)

\* the loop of doAction over the registry snapshot, from position i of the
\* iteration order on; status is the status remembered so far
RECURSIVE FetchSweep(_, _, _, _, _, _, _)
FetchSweep(linkMap, order, env, i, status, sdk, host) ==
    IF i > Len(order) THEN [ret |-> status, sdkCalls |-> sdk, hostCalls |-> host]
    ELSE
        LET r == FetchReturning(Link_fetch(linkMap[order[i]], env.results[order[i]]),
                                env.fetchStatus[order[i]])
        IN  IF r.ret = "COMPONENT_FATAL" THEN
                [ret |-> "COMPONENT_FATAL", sdkCalls |-> sdk \o r.sdkCalls,
                 hostCalls |-> host \o r.hostCalls]
            ELSE
                FetchSweep(linkMap, order, env, i + 1,
                           IF r.ret # "COMPONENT_OK" THEN r.ret ELSE status,
                           sdk \o r.sdkCalls, host \o r.hostCalls)

\* mutant: a wildcard POST that is bound to no link is an error
SkippedPost_IsError(p, actionId) ==
    Result([p EXCEPT !.contentTypeMap = MapErase(@, actionId)], "COMPONENT_ERROR", <<>>, <<>>)

\* the wildcard POST of an action id that actionToLinkIdMap.find does not find
SkippedPost(p, actionId) ==
    Result([p EXCEPT !.contentTypeMap = MapErase(@, actionId)], "COMPONENT_OK", <<>>, <<>>)

\* mutant: links.get is called before the two entries are erased
PostOnMissingLink_KeepsEntries(p, actionId) == Result(p, "COMPONENT_ERROR", <<>>, <<>>)

\* the POST whose links.get(linkId) throws: the two entries are erased by
\* then, and the catch of std::exception makes it COMPONENT_ERROR
PostOnMissingLink(p, actionId) ==
    Result(EraseCorrelation(p, actionId), "COMPONENT_ERROR", <<>>, <<>>)

\* the link a POST is sent on: the explicit id, or the bound one for "*"
PostTarget(p, actionId, linkId) ==
    IF linkId = "*" THEN p.actionToLinkIdMap[actionId] ELSE linkId

\* env: what the environment decides during the call: the content host's
\* answer to a post (success), its answer to each link's search (results), the
\* iteration order of the std::unordered_map snapshot (order) and the status
\* each link's fetch hands to the wildcard loop (fetchStatus)
Plugin_doAction(p, handles, action, env) ==
    IF action.json.kind = "empty" THEN Result(p, "COMPONENT_ERROR", <<>>, <<>>)
    ELSE
        LET actionParams == ParseAction(action.json)
            linkId == actionParams.linkId
        IN  IF actionParams.thrown THEN Result(p, "COMPONENT_ERROR", <<>>, <<>>)
            ELSE IF actionParams.type = "ACTION_FETCH" THEN
                LET p1 == EraseCorrelation(p, action.actionId)
                IN  IF linkId = "*" THEN
                        LET sweep == FetchSweep(LinkMap_getMap(p1.links), env.order,
                                                env, 1, "COMPONENT_OK", <<>>, <<>>)
                        IN  Result(p1, sweep.ret, sweep.sdkCalls, sweep.hostCalls)
                    ELSE IF ~LinkMap_has(p1.links, linkId) THEN
                        Result(p1, "COMPONENT_ERROR", <<>>, <<>>)
                    ELSE
                        OnLink(p1, linkId,
                               Link_fetch(LinkMap_get(p1.links, linkId), env.results[linkId]))
            ELSE IF actionParams.type = "ACTION_POST" THEN
                IF linkId = "*" /\ action.actionId \notin DOMAIN p.actionToLinkIdMap THEN
                    SkippedPost(p, action.actionId)
                ELSE
                    LET target == PostTarget(p, action.actionId, linkId)
                        p1 == EraseCorrelation(p, action.actionId)
                    IN  IF ~LinkMap_has(p1.links, target) THEN
                            PostOnMissingLink(p, action.actionId)
                        ELSE
                            OnLink(p1, target,
                                   Link_post(LinkMap_get(p1.links, target), handles,
                                             action.actionId, env.success))
            ELSE Result(p, "COMPONENT_ERROR", <<>>, <<>>)

(***************************************************************************)
(* Calls of the transport's interface                                      *)
(***************************************************************************)
LinkHandles == {1}
PluginContents == {<<>>, <<104, 105>>}
FetchResults ==
    {<<>>, <<[contentType |-> "image/jpeg", data |-> <<255, 216>>],
             [contentType |-> "text/plain", data |-> <<104, 105>>]>>}
ActionJsons ==
    {JsonEmpty, JsonGarbage, JsonObject([f \in {"type"} |-> JString("post")]),
     ActionObject(JString("bogus"), JString("L1"))}
    \cup {ActionObject(JString(t), JString(l)) :
            t \in {"post", "fetch"}, l \in LinkIds \cup {"*"}}
HintedJsons ==
    {ActionObjectWithHint(JString(t), JString(l), h) :
        t \in {"post", "fetch", "bogus"}, l \in {"L1", "*"},
        h \in {JString(x) : x \in {"image", "jpg", "jpeg", "text", "mixed",
                                   "text+image", "video"}} \cup {JNumber("1")}}
EnqueueJsons ==
    {JsonEmpty, JsonGarbage, ActionObject(JString("bogus"), JString("L1")),
     ActionObject(JString("post"), JString("*")),
     ActionObject(JString("fetch"), JString("*"))}
\* the action protocol is followed on one action id
PluginActionIds == {7}
Actions(ids, jsons) == [actionId : ids, json : jsons]
IterationOrders(S) ==
    {o \in [1..Cardinality(S) -> S] : \A i, j \in DOMAIN o : i # j => o[i] # o[j]}

Envs(p, action) ==
    LET actionParams == ParseAction(action.json)
    IN  [success : IF actionParams.type = "ACTION_POST" THEN BOOLEAN ELSE {TRUE},
         results : IF actionParams.type = "ACTION_FETCH" /\ actionParams.linkId = "*"
                   THEN [DOMAIN p.links -> FetchResults]
                   ELSE IF actionParams.type = "ACTION_FETCH"
                   THEN [DOMAIN p.links \cap {actionParams.linkId} -> FetchResults]
                   ELSE {EmptyMap},
         order : IF actionParams.type = "ACTION_FETCH" /\ actionParams.linkId = "*"
                 THEN IterationOrders(DOMAIN p.links) ELSE {<<>>},
         fetchStatus : {[l \in DOMAIN p.links |-> "COMPONENT_OK"]}]

PluginCall(r, c) ==
    /\ links' = r.p.links
    /\ actionToLinkIdMap' = r.p.actionToLinkIdMap
    /\ contentTypeMap' = r.p.contentTypeMap
    /\ nextAvailableHashTag' = r.p.nextAvailableHashTag
    /\ channelProperties' = r.p.channelProperties
    /\ mastodonClient' = r.p.mastodonClient
    /\ serverReceived' = r.p.serverReceived
    /\ tokenReceived' = r.p.tokenReceived
    /\ call' = c
    /\ ret' = r.ret
    /\ sdkCalls' = r.sdkCalls
    /\ hostCalls' = r.hostCalls
    /\ componentState' = StateTold(componentState, r.sdkCalls)
    /\ UNCHANGED hashVars
    /\ UNCHANGED threadVars

\* nextAvailableHashTag is capped at MaxHashTag
CreateLinkOf(ids) ==
    \E handle \in LinkHandles, linkId \in ids :
        /\ Plugin_createLink(Plugin, handle, linkId).p.nextAvailableHashTag <= MaxHashTag
        /\ PluginCall(Plugin_createLink(Plugin, handle, linkId),
                      [op |-> "createLink", handle |-> handle, linkId |-> linkId])

CreateLink == CreateLinkOf(LinkIds)

CreateLinkAny == CreateLinkOf(LinkIds \cup {"L3"})

DestroyLinkOf(ids) ==
    \E handle \in LinkHandles, linkId \in ids :
        PluginCall(Plugin_destroyLink(Plugin, handle, linkId),
                   [op |-> "destroyLink", handle |-> handle, linkId |-> linkId])

DestroyLink == DestroyLinkOf(LinkIds)

DestroyLinkAny == DestroyLinkOf(LinkIds \cup {"L3"})

LinkAddresses == {AddressGarbage, AddressObject("shared")}

LoadLinkAddress ==
    \E handle \in LinkHandles, linkId \in LinkIds \cup {"L3"}, linkAddress \in LinkAddresses :
        PluginCall(Plugin_loadLinkAddress(Plugin, handle, linkId, linkAddress),
                   [op |-> "loadLinkAddress", handle |-> handle, linkId |-> linkId,
                    linkAddress |-> linkAddress])

LoadLinkAddresses ==
    \E handle \in LinkHandles, linkId \in LinkIds \cup {"L3"} :
        PluginCall(Plugin_loadLinkAddresses(Plugin, handle, linkId),
                   [op |-> "loadLinkAddresses", handle |-> handle, linkId |-> linkId])

CreateLinkFromAddress ==
    \E handle \in LinkHandles, linkId \in LinkIds \cup {"L3"}, linkAddress \in LinkAddresses :
        PluginCall(Plugin_createLinkFromAddress(Plugin, handle, linkId, linkAddress),
                   [op |-> "createLinkFromAddress", handle |-> handle, linkId |-> linkId,
                    linkAddress |-> linkAddress])

GetActionParams ==
    \E action \in Actions(ActionIds, ActionJsons \cup HintedJsons) :
        PluginCall(Plugin_getActionParams(Plugin, action),
                   [op |-> "getActionParams", action |-> action])

EnqueueContent ==
    \E linkId \in LinkIds, type \in MimeTypes, action \in Actions(PluginActionIds, EnqueueJsons),
       content \in PluginContents :
        PluginCall(Plugin_enqueueContent(Plugin, EncodingParameters(linkId, type),
                                         action, content),
                   [op |-> "enqueueContent", params |-> EncodingParameters(linkId, type),
                    action |-> action, content |-> content])

DequeueContent ==
    \E action \in Actions(PluginActionIds, ActionJsons) :
        PluginCall(Plugin_dequeueContent(Plugin, action),
                   [op |-> "dequeueContent", action |-> action])

DoAction ==
    \E handles \in HandleVectors, action \in Actions(PluginActionIds, ActionJsons) :
        \E env \in Envs(Plugin, action) :
            PluginCall(Plugin_doAction(Plugin, handles, action, env),
                       [op |-> "doAction", handles |-> handles, action |-> action])

\* direct calls of the registry's operations; ret is the value returned
RegistryLinks ==
    {Link(id, [hashtag |-> h], TRUE) : id \in LinkIds \cup {"L3"}, h \in {"a", "b"}}

RegistryCall(m, r, c) ==
    /\ links' = m
    /\ call' = c
    /\ ret' = r
    /\ sdkCalls' = <<>>
    /\ hostCalls' = <<>>
    /\ UNCHANGED componentState
    /\ UNCHANGED hashVars
    /\ UNCHANGED pluginVars
    /\ UNCHANGED threadVars

LinkMapSize == RegistryCall(links, LinkMap_size(links), [op |-> "LinkMap.size"])

LinkMapClear == RegistryCall(LinkMap_clear(links), "void", [op |-> "LinkMap.clear"])

LinkMapAdd ==
    \E link \in RegistryLinks :
        RegistryCall(LinkMap_add(links, link), "void", [op |-> "LinkMap.add", link |-> link])

LinkMapGet ==
    \E linkId \in LinkIds \cup {"L3"} :
        RegistryCall(links,
                     IF LinkMap_has(links, linkId) THEN LinkMap_get(links, linkId)
                     ELSE "THROWS std::out_of_range",
                     [op |-> "LinkMap.get", linkId |-> linkId])

LinkMapGetMap == RegistryCall(links, LinkMap_getMap(links), [op |-> "LinkMap.getMap"])

LinkMapRemove ==
    \E linkId \in LinkIds \cup {"L3"} :
        RegistryCall(LinkMap_remove(links, linkId).links, LinkMap_remove(links, linkId).value,
                     [op |-> "LinkMap.remove", linkId |-> linkId])

\* the wildcard FETCH against every ComponentStatus a fetch can hand to the
\* loop of doAction; the call records the iteration order and the statuses
FetchStatuses == {"COMPONENT_UNDEF", "COMPONENT_OK", "COMPONENT_ERROR", "COMPONENT_FATAL"}

FetchAllAction == [actionId |-> 7, json |-> ActionObject(JString("fetch"), JString("*"))]

SweepEnvs(p) ==
    [success : {TRUE},
     results : [DOMAIN p.links -> FetchResults],
     order : IterationOrders(DOMAIN p.links),
     fetchStatus : [DOMAIN p.links -> FetchStatuses]]

DoActionFetchAll ==
    \E env \in SweepEnvs(Plugin) :
        PluginCall(Plugin_doAction(Plugin, <<>>, FetchAllAction, env),
                   [op |-> "doAction", handles |-> <<>>, action |-> FetchAllAction,
                    order |-> env.order, fetchStatus |-> env.fetchStatus])

\* the transport once both user inputs were received and the client was
\* constructed, with no link; its role may create links and it has no link limit
Init ==
    /\ InitPlugin
    /\ channelProperties = [maxLinks |-> 0, linkSide |-> "LS_BOTH"]
    /\ mastodonClient = TRUE
    /\ serverReceived = TRUE
    /\ tokenReceived = TRUE
    /\ componentState = "COMPONENT_STATE_STARTED"
    /\ links = EmptyMap

\* an empty window with every maximum up to MaxMax
InitHash ==
    /\ actionToLinkIdMap = EmptyMap
    /\ contentTypeMap = EmptyMap
    /\ nextAvailableHashTag = 0
    /\ call = NoCall
    /\ ret = "none"
    /\ sdkCalls = <<>>
    /\ hostCalls = <<>>
    /\ mutex = "free"
    /\ threads = [t \in Threads |-> Idle]
    /\ channelProperties = [maxLinks |-> 0, linkSide |-> "LS_BOTH"]
    /\ mastodonClient = TRUE
    /\ serverReceived = TRUE
    /\ tokenReceived = TRUE
    /\ componentState = "COMPONENT_STATE_STARTED"
    /\ links = EmptyMap
    /\ queue = <<>>
    /\ max \in 0..MaxMax

SpecHash == InitHash /\ [][NextHash]_vars

Next ==
    \/ CreateLink
    \/ DestroyLink
    \/ EnqueueContent
    \/ DequeueContent
    \/ DoAction

Spec == Init /\ [][Next]_vars

NextRegistry ==
    \/ LinkMapSize
    \/ LinkMapClear
    \/ LinkMapAdd
    \/ LinkMapGet
    \/ LinkMapGetMap
    \/ LinkMapRemove

SpecRegistry == Init /\ [][NextRegistry]_vars

NextSweep ==
    \/ CreateLink
    \/ DestroyLink
    \/ DoActionFetchAll

SpecSweep == Init /\ [][NextSweep]_vars

\* link management under every channel configuration: maxLinks up to
\* MaxMaxLinks (0: no limit) and every role side
LinkSides == {"LS_UNDEF", "LS_CREATOR", "LS_LOADER", "LS_BOTH"}

InitCreate ==
    /\ InitPlugin
    /\ channelProperties \in [maxLinks : 0..MaxMaxLinks, linkSide : LinkSides]
    /\ mastodonClient = TRUE
    /\ serverReceived = TRUE
    /\ tokenReceived = TRUE
    /\ componentState = "COMPONENT_STATE_STARTED"
    /\ links = EmptyMap

NextCreate ==
    \/ CreateLinkAny
    \/ DestroyLinkAny
    \/ LoadLinkAddress
    \/ LoadLinkAddresses
    \/ CreateLinkFromAddress

SpecCreate == InitCreate /\ [][NextCreate]_vars

\* getActionParams on every action descriptor
NextParams == GetActionParams

SpecParams == Init /\ [][NextParams]_vars

\* every operation of the transport on a channel limited to one link, so
\* that each of their failing paths is taken
GetActionParamsPlain ==
    \E action \in Actions(PluginActionIds, ActionJsons) :
        PluginCall(Plugin_getActionParams(Plugin, action),
                   [op |-> "getActionParams", action |-> action])

InitFailures ==
    /\ InitPlugin
    /\ channelProperties = [maxLinks |-> 1, linkSide |-> "LS_BOTH"]
    /\ mastodonClient = TRUE
    /\ serverReceived = TRUE
    /\ tokenReceived = TRUE
    /\ componentState = "COMPONENT_STATE_STARTED"
    /\ links = EmptyMap

NextFailures ==
    \/ CreateLink
    \/ LoadLinkAddress
    \/ CreateLinkFromAddress
    \/ DestroyLink
    \/ GetActionParamsPlain
    \/ EnqueueContent
    \/ DequeueContent
    \/ DoAction

SpecFailures == InitFailures /\ [][NextFailures]_vars

\* the transport from its construction on: no user input received yet, no
\* client; the host answers the two requests and asks for action parameters
UserInputHandles == {mastodonServerHandle, accessTokenHandle, 3}

OnUserInputReceived ==
    \E handle \in UserInputHandles, answered \in BOOLEAN :
        PluginCall(Plugin_onUserInputReceived(Plugin, handle, answered),
                   [op |-> "onUserInputReceived", handle |-> handle, answered |-> answered])

InitStart ==
    /\ InitPlugin
    /\ channelProperties = [maxLinks |-> 0, linkSide |-> "LS_BOTH"]
    /\ mastodonClient = FALSE
    /\ serverReceived = FALSE
    /\ tokenReceived = FALSE
    /\ componentState = "none"
    /\ links = EmptyMap

NextStart ==
    \/ OnUserInputReceived
    \/ GetActionParams

SpecStart == InitStart /\ [][NextStart]_vars

\* the transport from its construction on, with the link management calls:
\* nothing in them waits for the user inputs
NextInputs ==
    \/ OnUserInputReceived
    \/ CreateLink
    \/ LoadLinkAddress
    \/ CreateLinkFromAddress
    \/ DestroyLink

SpecInputs == InitStart /\ [][NextInputs]_vars

\* create and load calls for a link id that may be registered already, which
\* may buffer content by then; the call records the action ids buffered on
\* the instance it found registered
ReloadedIds == {"L1"}

Buffered(linkMap, linkId) ==
    IF linkId \in DOMAIN linkMap THEN DOMAIN linkMap[linkId].contentQueue ELSE {}

LoadLinkAddressAgain ==
    \E handle \in LinkHandles, linkId \in ReloadedIds :
        PluginCall(Plugin_loadLinkAddress(Plugin, handle, linkId, AddressObject("shared")),
                   [op |-> "loadLinkAddress", handle |-> handle, linkId |-> linkId,
                    linkAddress |-> AddressObject("shared"),
                    replaced |-> Buffered(links, linkId)])

CreateLinkFromAddressAgain ==
    \E handle \in LinkHandles, linkId \in ReloadedIds :
        PluginCall(Plugin_createLinkFromAddress(Plugin, handle, linkId, AddressObject("shared")),
                   [op |-> "createLinkFromAddress", handle |-> handle, linkId |-> linkId,
                    linkAddress |-> AddressObject("shared"),
                    replaced |-> Buffered(links, linkId)])

CreateLinkAgain == CreateLinkOf(ReloadedIds)

NextReplace ==
    \/ CreateLinkAgain
    \/ LoadLinkAddressAgain
    \/ CreateLinkFromAddressAgain
    \/ EnqueueContent
    \/ DoAction

SpecReplace == Init /\ [][NextReplace]_vars

(***************************************************************************)
(* Host threads.  A call of the transport is a sequence of steps of the    *)
(* calling thread: every LinkMap method is a std::lock_guard on            *)
(* LinkMap::mutex (a step that acquires it, then a step that runs the      *)
(* body and returns, which releases it); a Link::fetch is the search in    *)
(* progress on the content host, then the deliveries; a Link::post is the  *)
(* transmission in progress on the content host (if the link holds a       *)
(* record), then the status callbacks.  The calls are loadLinkAddress,      *)
(* destroyLink, doAction for a FETCH of one link and of "*", doAction for   *)
(* a POST on one link, and LinkMap::clear.                                  *)
(***************************************************************************)
ThreadCalls ==
    {[op |-> "clear", linkId |-> "", first |-> "clear"],
     [op |-> "fetchAll", linkId |-> "*", first |-> "getMap"]}
    \cup {[op |-> o.op, linkId |-> l, first |-> o.first] :
            o \in {[op |-> "loadLinkAddress", first |-> "size"],
                   [op |-> "destroyLink", first |-> "remove"],
                   [op |-> "fetchOne", first |-> "get"],
                   [op |-> "postOne", first |-> "get"]},
            l \in LinkIds}

\* the thread is about to lock the mutex in a LinkMap method / has locked it
Waiting(local, method) == [local EXCEPT !.pc = "lock", !.method = method]
Inside(local, method) == local.pc = "in" /\ local.method = method
SweepPcs == {"loop", "searching", "delivering"}

\* mutant: the lock is taken whoever holds it
MutexFree_Always(m) == TRUE

\* std::lock_guard<std::mutex> blocks until the mutex is free
MutexFree(m) == m = "free"

ThreadStep(t, local, c, sdk, host) ==
    /\ threads' = [threads EXCEPT ![t] = local]
    /\ call' = c
    /\ ret' = "none"
    /\ sdkCalls' = sdk
    /\ hostCalls' = host
    /\ UNCHANGED componentState
    /\ UNCHANGED hashVars
    /\ UNCHANGED pluginVars

\* the thread enters a call of the transport
ThreadCall(t) ==
    \E c \in ThreadCalls :
        /\ threads[t].pc = "idle"
        /\ ThreadStep(t, Waiting([Idle EXCEPT !.op = c.op, !.linkId = c.linkId], c.first),
                      [op |-> "call", thread |-> t], <<>>, <<>>)
        /\ UNCHANGED <<links, mutex>>

Lock(t) ==
    /\ threads[t].pc = "lock"
    /\ MutexFree(mutex)
    /\ mutex' = t
    /\ ThreadStep(t, [threads[t] EXCEPT !.pc = "in"],
                  [op |-> "lock", thread |-> t], <<>>, <<>>)
    /\ UNCHANGED links

\* links.size() in preLinkCreate, and the check made on the value it returned
SizeBody(t) ==
    LET pre == preLinkCreate(Plugin, 1, threads[t].linkId, "LS_CREATOR")
    IN  /\ Inside(threads[t], "size")
        /\ mutex' = "free"
        /\ ThreadStep(t, IF pre.ok THEN Waiting(threads[t], "add") ELSE Idle,
                      [op |-> "LinkMap.size", thread |-> t], pre.sdkCalls, <<>>)
        /\ UNCHANGED links

\* links.add(link) in postLinkCreate, and the status callback that follows
AddBody(t) ==
    LET r == LinkFromAddress(Plugin, 1, threads[t].linkId, AddressObject("shared"),
                             "LINK_LOADED")
    IN  /\ Inside(threads[t], "add")
        /\ mutex' = "free"
        /\ links' = r.p.links
        /\ ThreadStep(t, Idle, [op |-> "LinkMap.add", thread |-> t], r.sdkCalls, <<>>)

\* links.remove(linkId) in destroyLink
RemoveBody(t) ==
    /\ Inside(threads[t], "remove")
    /\ mutex' = "free"
    /\ links' = Plugin_destroyLink(Plugin, 1, threads[t].linkId).p.links
    /\ ThreadStep(t, Idle, [op |-> "LinkMap.remove", thread |-> t], <<>>, <<>>)

ClearBody(t) ==
    /\ Inside(threads[t], "clear")
    /\ mutex' = "free"
    /\ links' = LinkMap_clear(links)
    /\ ThreadStep(t, Idle, [op |-> "LinkMap.clear", thread |-> t], <<>>, <<>>)

\* links.getMap() in doAction: the thread now owns a copy of the map
GetMapBody(t) ==
    /\ Inside(threads[t], "getMap")
    /\ mutex' = "free"
    /\ ThreadStep(t, [threads[t] EXCEPT !.pc = "loop", !.method = "",
                                     !.linkMap = LinkMap_getMap(links)],
                  [op |-> "LinkMap.getMap", thread |-> t], <<>>, <<>>)
    /\ UNCHANGED links

\* the search of a link's hashtag, sent to the content host
SearchRequest(link) == [fn |-> "searchStatuses", hashtag |-> "#" \o link.address.hashtag]

\* the action and the handles of the POST
PostedActionId == 7
PostedHandles == <<1>>

\* links.get(linkId) in doAction; at() throws for an id that is not
\* registered and doAction returns.  Link::fetch then starts with the search,
\* Link::post with the transmission if the link holds a record
GetBody(t) ==
    LET l == threads[t].linkId
        link == LinkMap_get(links, l)
        held == [threads[t] EXCEPT !.method = "", !.cur = l,
                                   !.linkMap = MapPut(EmptyMap, l, link)]
        posted == Link_post(link, PostedHandles, PostedActionId, TRUE).hostCalls
    IN  /\ Inside(threads[t], "get")
        /\ mutex' = "free"
        /\ IF ~LinkMap_has(links, l) THEN
                ThreadStep(t, Idle, [op |-> "LinkMap.get", thread |-> t], <<>>, <<>>)
           ELSE IF threads[t].op = "fetchOne" THEN
                ThreadStep(t, [held EXCEPT !.pc = "searching"],
                           [op |-> "LinkMap.get", thread |-> t], <<>>,
                           <<SearchRequest(link)>>)
           ELSE IF posted # <<>> THEN
                ThreadStep(t, [held EXCEPT !.pc = "posting"],
                           [op |-> "LinkMap.get", thread |-> t], <<>>,
                           <<posted[1].request>>)
           ELSE ThreadStep(t, [held EXCEPT !.pc = "reporting"],
                           [op |-> "LinkMap.get", thread |-> t], <<>>, <<>>)
        /\ UNCHANGED links

\* the content host answers the transmission
PostReturns(t) ==
    \E success \in BOOLEAN :
        /\ threads[t].pc = "posting"
        /\ ThreadStep(t, [threads[t] EXCEPT !.pc = "reporting", !.value = <<success>>],
                      [op |-> "post.return", thread |-> t], <<>>, <<>>)
        /\ UNCHANGED <<links, mutex>>

\* the rest of Link::post on the Link the thread holds: the status callbacks,
\* and the erase of the record, seen in the registry if that Link is still
\* the registered one
Report(t) ==
    LET l == threads[t].cur
        held == threads[t].linkMap[l]
        r == Link_post(held, PostedHandles, PostedActionId, threads[t].value = <<TRUE>>)
    IN  /\ threads[t].pc = "reporting"
        /\ links' = IF l \in DOMAIN links /\ links[l] = held
                    THEN [links EXCEPT ![l] = r.link] ELSE links
        /\ ThreadStep(t, Idle, [op |-> "Link.post.return", thread |-> t], r.sdkCalls, <<>>)
        /\ UNCHANGED mutex

\* mutant: the loop walks the registry itself
SweepSource_Live(linkMap, live) == live

\* the map the loop of doAction walks: `for (auto &link : linkMap)`
SweepSource(linkMap, live) == linkMap

\* the loop goes to a link it has not fetched yet, in the map's iteration
\* order (any), or ends; Link::fetch starts with the search
SweepNext(t) ==
    LET source == SweepSource(threads[t].linkMap, links)
        remaining == DOMAIN source \ {threads[t].fetched[i] : i \in 1..Len(threads[t].fetched)}
    IN  /\ threads[t].pc = "loop"
        /\ IF remaining = {} THEN
                ThreadStep(t, Idle,
                           [op |-> "return", thread |-> t, of |-> "fetchAll",
                            fetched |-> threads[t].fetched], <<>>, <<>>)
           ELSE \E l \in remaining :
                ThreadStep(t, [threads[t] EXCEPT !.pc = "searching", !.cur = l],
                           [op |-> "Link.fetch", thread |-> t], <<>>,
                           <<SearchRequest(source[l])>>)
        /\ UNCHANGED <<links, mutex>>

\* MastodonClient::searchStatuses returns
SearchReturns(t) ==
    \E results \in FetchResults :
        /\ threads[t].pc = "searching"
        /\ ThreadStep(t, [threads[t] EXCEPT !.pc = "delivering", !.value = results],
                      [op |-> "searchStatuses.return", thread |-> t], <<>>, <<>>)
        /\ UNCHANGED <<links, mutex>>

\* the onReceive calls of Link::fetch, which then returns to doAction
Deliver(t) ==
    LET l == threads[t].cur
        r == Link_fetch(threads[t].linkMap[l], threads[t].value)
    IN  /\ threads[t].pc = "delivering"
        /\ l \in DOMAIN threads[t].linkMap
        /\ ThreadStep(t, IF threads[t].op = "fetchAll"
                         THEN [threads[t] EXCEPT !.pc = "loop", !.cur = "", !.value = <<>>,
                                                 !.fetched = Append(@, l)]
                         ELSE Idle,
                      [op |-> "Link.fetch.return", thread |-> t], r.sdkCalls, <<>>)
        /\ UNCHANGED <<links, mutex>>

NextThreads ==
    \E t \in Threads :
        \/ ThreadCall(t)
        \/ Lock(t)
        \/ SizeBody(t)
        \/ AddBody(t)
        \/ RemoveBody(t)
        \/ ClearBody(t)
        \/ GetMapBody(t)
        \/ GetBody(t)
        \/ SweepNext(t)
        \/ SearchReturns(t)
        \/ Deliver(t)
        \/ PostReturns(t)
        \/ Report(t)

\* one loaded link that still buffers the text of an action whose
\* transmission was refused (its correlation entries are erased)
BufferedLink ==
    Link_enqueueContent(Link("L1", [hashtag |-> "shared"], TRUE), PostedActionId,
                        <<104, 105>>, "text/plain").link

InitThreads ==
    /\ InitPlugin
    /\ channelProperties = [maxLinks |-> 0, linkSide |-> "LS_BOTH"]
    /\ mastodonClient = TRUE
    /\ serverReceived = TRUE
    /\ tokenReceived = TRUE
    /\ componentState = "COMPONENT_STATE_STARTED"
    /\ links = [l \in {"L1"} |-> BufferedLink]

SpecThreads == InitThreads /\ [][NextThreads]_vars

\* the same threads on a channel whose number of links is limited
InitCapacity ==
    /\ InitPlugin
    /\ channelProperties \in [maxLinks : 1..MaxMaxLinks, linkSide : {"LS_BOTH"}]
    /\ mastodonClient = TRUE
    /\ serverReceived = TRUE
    /\ tokenReceived = TRUE
    /\ componentState = "COMPONENT_STATE_STARTED"
    /\ links = [l \in {"L1"} |-> BufferedLink]

SpecCapacity == InitCapacity /\ [][NextThreads]_vars

(***************************************************************************)
(* Two host threads on different links and different action ids: thread t  *)
(* calls createLink, enqueueContent, dequeueContent and doAction (a POST)  *)
(* for LinkOf[t] and ActionOf[t].  The registry is reached through the     *)
(* std::lock_guard of its methods; actionToLinkIdMap and contentTypeMap    *)
(* are std::unordered_maps that enqueueContent, dequeueContent and         *)
(* doAction access with no lock.  An access of a table is the read of the  *)
(* container followed by the write of the updated container, so that a     *)
(* concurrent update can be lost.  nextAvailableHashTag++ is one step.     *)
(***************************************************************************)
LinkOf == [t \in Threads |-> IF t = "T1" THEN "L1" ELSE "L2"]
ActionOf == [t \in Threads |-> IF t = "T1" THEN 7 ELSE 8]

RaceCalls ==
    {[op |-> "createLink", pc |-> "lock", method |-> "size"],
     [op |-> "enqueueContent", pc |-> "bind", method |-> ""],
     [op |-> "dequeueContent", pc |-> "unbind", method |-> ""],
     [op |-> "doAction", pc |-> "unbind", method |-> ""]}

\* the EncodingParameters of the thread's enqueueContent
RaceParams(t) == EncodingParameters(LinkOf[t], "text/plain")

RaceStep(t, local, c, p, sdk, host) ==
    /\ threads' = [threads EXCEPT ![t] = local]
    /\ call' = c
    /\ ret' = "none"
    /\ sdkCalls' = sdk
    /\ hostCalls' = host
    /\ links' = p.links
    /\ actionToLinkIdMap' = p.actionToLinkIdMap
    /\ contentTypeMap' = p.contentTypeMap
    /\ nextAvailableHashTag' = p.nextAvailableHashTag
    /\ UNCHANGED <<channelProperties, mastodonClient, serverReceived, tokenReceived,
                   componentState>>
    /\ UNCHANGED hashVars

RaceCall(t) ==
    \E c \in RaceCalls :
        /\ threads[t].pc = "idle"
        /\ RaceStep(t, [Idle EXCEPT !.op = c.op, !.linkId = LinkOf[t], !.pc = c.pc,
                                    !.method = c.method],
                    [op |-> "call", thread |-> t], Plugin, <<>>, <<>>)
        /\ UNCHANGED mutex

\* links.size() in preLinkCreate, and the check of createLink
RaceSize(t) ==
    LET pre == preLinkCreate(Plugin, 1, threads[t].linkId, "LS_LOADER")
    IN  /\ Inside(threads[t], "size")
        /\ mutex' = "free"
        /\ RaceStep(t, IF pre.ok THEN [threads[t] EXCEPT !.pc = "hashtag", !.method = ""]
                       ELSE Idle,
                    [op |-> "LinkMap.size", thread |-> t], Plugin, pre.sdkCalls, <<>>)

\* nextAvailableHashTag++, capped at MaxHashTag
RaceHashtag(t) ==
    /\ threads[t].pc = "hashtag"
    /\ nextAvailableHashTag < MaxHashTag
    /\ RaceStep(t, Waiting([threads[t] EXCEPT !.value = <<nextAvailableHashTag>>], "add"),
                [op |-> "hashtag", thread |-> t],
                [Plugin EXCEPT !.nextAvailableHashTag = @ + 1], <<>>, <<>>)
    /\ UNCHANGED mutex

\* createLinkInstance, then links.add(link) and the callback of postLinkCreate
RaceAdd(t) ==
    LET address == [hashtag |-> "pqrstuv" \o to_string(threads[t].value[1])]
        link == createLinkInstance(Plugin, threads[t].linkId, address)
        r == postLinkCreate(Plugin, 1, threads[t].linkId, link, "LINK_CREATED")
    IN  /\ Inside(threads[t], "add")
        /\ threads[t].op = "createLink"
        /\ mutex' = "free"
        /\ RaceStep(t, Idle, [op |-> "LinkMap.add", thread |-> t], r.p, r.sdkCalls, <<>>)

\* the thread reads the two tables it is about to update
TableRead(t) ==
    /\ threads[t].pc \in {"bind", "unbind"}
    /\ RaceStep(t, [threads[t] EXCEPT !.pc = IF @ = "bind" THEN "binding" ELSE "unbinding",
                                      !.value = <<actionToLinkIdMap, contentTypeMap>>],
                [op |-> "table.read", thread |-> t], Plugin, <<>>, <<>>)
    /\ UNCHANGED mutex

\* and writes them back: with the entries of its action id put
\* (enqueueContent) or erased (dequeueContent, doAction)
TableWrite(t) ==
    LET seen == [Plugin EXCEPT !.actionToLinkIdMap = threads[t].value[1],
                               !.contentTypeMap = threads[t].value[2]]
        p == IF threads[t].pc = "binding"
             THEN RecordCorrelation(seen, ActionOf[t], RaceParams(t))
             ELSE EraseCorrelation(seen, ActionOf[t])
    IN  /\ threads[t].pc \in {"binding", "unbinding"}
        /\ RaceStep(t, Waiting([threads[t] EXCEPT !.value = <<>>], "get"),
                    [op |-> "table.write", thread |-> t], p, <<>>, <<>>)
        /\ UNCHANGED mutex

\* links.get(linkId): at() throws for an id that is not registered
RaceGet(t) ==
    LET l == threads[t].linkId
    IN  /\ Inside(threads[t], "get")
        /\ threads[t].op # "createLink"
        /\ mutex' = "free"
        /\ RaceStep(t, IF LinkMap_has(links, l)
                       THEN [threads[t] EXCEPT !.pc = "link", !.method = "", !.cur = l]
                       ELSE Idle,
                    [op |-> "LinkMap.get", thread |-> t], Plugin, <<>>, <<>>)

\* the method of the Link the call ends with
RaceLink(t) ==
    \E success \in BOOLEAN :
        LET l == threads[t].cur
            r == CASE threads[t].op = "enqueueContent" ->
                        Link_enqueueContent(links[l], ActionOf[t], <<104, 105>>,
                                            RaceParams(t).type)
                   [] threads[t].op = "dequeueContent" ->
                        Link_dequeueContent(links[l], ActionOf[t])
                   [] OTHER -> Link_post(links[l], PostedHandles, ActionOf[t], success)
        IN  /\ threads[t].pc = "link"
            /\ RaceStep(t, Idle, [op |-> "Link.return", thread |-> t, of |-> threads[t].op],
                        [Plugin EXCEPT !.links[l] = r.link], r.sdkCalls, r.hostCalls)
            /\ UNCHANGED mutex

NextRace ==
    \E t \in Threads :
        \/ RaceCall(t)
        \/ Lock(t)
        \/ RaceSize(t)
        \/ RaceHashtag(t)
        \/ RaceAdd(t)
        \/ TableRead(t)
        \/ TableWrite(t)
        \/ RaceGet(t)
        \/ RaceLink(t)

SpecRace == Init /\ [][NextRace]_vars

(***************************************************************************)
(* Vocabulary of the properties                                            *)
(***************************************************************************)
\* calls reports `status` once on every handle of `handles`, in order, and nothing else
ReportsOnEvery(calls, handles, status) ==
    /\ Len(calls) = Len(handles)
    /\ \A i \in 1..Len(handles) :
        /\ calls[i].cb = "onPackageStatusChanged"
        /\ calls[i].handle = handles[i]
        /\ calls[i].status = status

HasRecord(l, a) == l \in DOMAIN links /\ a \in DOMAIN links[l].contentQueue

HistoryOf(l, a) ==
    IF l \in DOMAIN links /\ a \in DOMAIN links[l].history THEN links[l].history[a]
    ELSE "none"

\* the step is a call of Link::post
IsLinkPost == call'.op = "Link.post"

\* the content host was called once in the step and answered `answer`
HostAnswered(answer) == Len(hostCalls') = 1 /\ hostCalls'[1].result = answer

(***************************************************************************)
(* C1: Link.post on an action id that was never enqueued on the link       *)
(* reports PACKAGE_FAILED_GENERIC on every handle, calls no content host,  *)
(* returns COMPONENT_OK and leaves the pending-content map as it was,      *)
(* without a record for the action id.                                     *)
(***************************************************************************)
C1_PostNeverEnqueued ==
    [][(IsLinkPost /\ HistoryOf(call'.linkId, call'.actionId) = "none") =>
            /\ ~HasRecord(call'.linkId, call'.actionId)
            /\ ReportsOnEvery(sdkCalls', call'.handles, "PACKAGE_FAILED_GENERIC")
            /\ hostCalls' = <<>>
            /\ ret' = "COMPONENT_OK"
            /\ links'[call'.linkId].contentQueue = links[call'.linkId].contentQueue
            /\ call'.actionId \notin DOMAIN links'[call'.linkId].contentQueue]_vars

C1_Witness ==
    /\ call.op = "Link.post"
    /\ HistoryOf(call.linkId, call.actionId) = "none"
    /\ Len(call.handles) >= 2
    /\ ret = "COMPONENT_OK"
    /\ links[call.linkId].contentQueue # EmptyMap

(***************************************************************************)
(* C2: Link.post of a buffered record that the content host accepts        *)
(* reports PACKAGE_SENT on every handle and removes the record; a later    *)
(* Link.post of the same action id with no enqueue in between reports      *)
(* PACKAGE_FAILED_GENERIC on every handle and calls no content host.       *)
(***************************************************************************)
C2_SentThenFailed ==
    [][/\ (IsLinkPost /\ HasRecord(call'.linkId, call'.actionId) /\ HostAnswered(TRUE)) =>
            /\ ReportsOnEvery(sdkCalls', call'.handles, "PACKAGE_SENT")
            /\ call'.actionId \notin DOMAIN links'[call'.linkId].contentQueue
       /\ (IsLinkPost /\ HistoryOf(call'.linkId, call'.actionId) = "sent") =>
            /\ ReportsOnEvery(sdkCalls', call'.handles, "PACKAGE_FAILED_GENERIC")
            /\ hostCalls' = <<>>]_vars

C2_Witness ==
    /\ call.op = "Link.post"
    /\ HistoryOf(call.linkId, call.actionId) = "sent"
    /\ hostCalls = <<>>
    /\ Len(call.handles) >= 1

(***************************************************************************)
(* C3: Link.post of a buffered record that the content host refuses        *)
(* reports PACKAGE_FAILED_GENERIC on every handle and keeps the record     *)
(* unchanged; posting the action id again calls the content host again     *)
(* with the same request (same operation, same bytes, same hashtag).       *)
(***************************************************************************)
C3_FailedKeepsRecord ==
    [][/\ (IsLinkPost /\ HasRecord(call'.linkId, call'.actionId) /\ HostAnswered(FALSE)) =>
            /\ ReportsOnEvery(sdkCalls', call'.handles, "PACKAGE_FAILED_GENERIC")
            /\ links'[call'.linkId].contentQueue = links[call'.linkId].contentQueue
       /\ (/\ IsLinkPost
           /\ call.op = "Link.post"
           /\ call'.linkId = call.linkId
           /\ call'.actionId = call.actionId
           /\ Len(hostCalls) = 1
           /\ hostCalls[1].result = FALSE) =>
            /\ Len(hostCalls') = 1
            /\ hostCalls'[1].request = hostCalls[1].request]_vars

C3_Witness ==
    /\ call.op = "Link.post"
    /\ HistoryOf(call.linkId, call.actionId) = "retried"
    /\ Len(hostCalls) = 1
    /\ Len(call.handles) >= 1

(***************************************************************************)
(* C4: one Link.post of a buffered record makes exactly one content-host   *)
(* call: the combined call when text and image were enqueued (in either    *)
(* order), the text call when only text was, the image call when only      *)
(* image was; an accepted enqueue sets its kind's flag and keeps the       *)
(* other kind's.                                                           *)
(***************************************************************************)
C4_Mode(content) ==
    CASE content.hasText /\ content.hasImage -> "postImageWithText"
      [] content.hasText /\ ~content.hasImage -> "postStatus"
      [] ~content.hasText /\ content.hasImage -> "postImage"
      [] OTHER -> "none"

C4_OneCallOfTheRightKind ==
    [][/\ (IsLinkPost /\ HasRecord(call'.linkId, call'.actionId)) =>
            /\ Len(hostCalls') = 1
            /\ hostCalls'[1].request.fn = C4_Mode(links[call'.linkId].contentQueue[call'.actionId])
       /\ (call'.op = "Link.enqueueContent" /\ ret' = "COMPONENT_OK") =>
            LET old == QueueAt(links[call'.linkId].contentQueue, call'.actionId)
                new == links'[call'.linkId].contentQueue[call'.actionId]
            IN  /\ call'.contentType = "text/plain" =>
                    new.hasText /\ new.hasImage = old.hasImage
                /\ call'.contentType = "image/jpeg" =>
                    new.hasImage /\ new.hasText = old.hasText]_vars

C4_Witness ==
    /\ call.op = "Link.post"
    /\ Len(hostCalls) = 1
    /\ hostCalls[1].request.fn = "postImageWithText"
    /\ hostCalls[1].request.text # <<>>
    /\ hostCalls[1].request.image # <<>>

(***************************************************************************)
(* C5: Link.dequeueContent always returns COMPONENT_OK and leaves no       *)
(* record for the action id, and a Link.post that follows it (no enqueue   *)
(* in between) does what Link.post does on an action id that was never     *)
(* enqueued: PACKAGE_FAILED_GENERIC on every handle, no content-host call, *)
(* COMPONENT_OK, buffer unchanged.                                         *)
(***************************************************************************)
C5_DequeueThenPost ==
    [][/\ call'.op = "Link.dequeueContent" =>
            /\ ret' = "COMPONENT_OK"
            /\ sdkCalls' = <<>> /\ hostCalls' = <<>>
            /\ links'[call'.linkId].contentQueue
                 = MapErase(links[call'.linkId].contentQueue, call'.actionId)
       /\ (/\ IsLinkPost
           /\ \/ HistoryOf(call'.linkId, call'.actionId) = "removed"
              \/ /\ call.op = "Link.dequeueContent"
                 /\ call.linkId = call'.linkId
                 /\ call.actionId = call'.actionId) =>
            /\ ReportsOnEvery(sdkCalls', call'.handles, "PACKAGE_FAILED_GENERIC")
            /\ hostCalls' = <<>>
            /\ ret' = "COMPONENT_OK"
            /\ links'[call'.linkId].contentQueue = links[call'.linkId].contentQueue
            /\ call'.actionId \notin DOMAIN links'[call'.linkId].contentQueue]_vars

C5_Witness ==
    /\ call.op = "Link.post"
    /\ HistoryOf(call.linkId, call.actionId) = "removed"
    /\ Len(call.handles) >= 1
    /\ hostCalls = <<>>

(***************************************************************************)
(* C6: Link.fetch on a search result with N text/plain and M image/jpeg    *)
(* items makes exactly N+M onReceive calls, the N text items first and     *)
(* then the M image items, each kind in search-result order, each call     *)
(* with this link's id and the item's MIME type and bytes.                 *)
(***************************************************************************)
C6_Positions(results, m) == {i \in 1..Len(results) : results[i].contentType = m}

C6_Before(results, m, p) == Cardinality({q \in C6_Positions(results, m) : q < p})

C6_Delivers(delivery, l, item) ==
    /\ delivery.cb = "onReceive"
    /\ delivery.linkId = l
    /\ delivery.params.linkId = l
    /\ delivery.params.type = item.contentType
    /\ delivery.bytes = item.data

C6_FetchOrder ==
    call.op = "Link.fetch" =>
        LET results == hostCalls[1].result
            N == Cardinality(C6_Positions(results, "text/plain"))
            M == Cardinality(C6_Positions(results, "image/jpeg"))
        IN  /\ Len(sdkCalls) = N + M
            /\ \A p \in C6_Positions(results, "text/plain") :
                C6_Delivers(sdkCalls[1 + C6_Before(results, "text/plain", p)],
                            call.linkId, results[p])
            /\ \A p \in C6_Positions(results, "image/jpeg") :
                C6_Delivers(sdkCalls[N + 1 + C6_Before(results, "image/jpeg", p)],
                            call.linkId, results[p])

C6_Witness ==
    /\ call.op = "Link.fetch"
    /\ Len(hostCalls[1].result) = 3
    /\ hostCalls[1].result[1].contentType = "image/jpeg"
    /\ hostCalls[1].result[2].contentType = "text/plain"
    /\ hostCalls[1].result[3].contentType = "text/plain"
    /\ hostCalls[1].result[2].data # hostCalls[1].result[3].data
    /\ Len(sdkCalls) = 3

(***************************************************************************)
(* C7: getActionParams on a POST action with hint "mixed" or "text+image"  *)
(* returns exactly [text/plain, image/jpeg], both with the action's link   *)
(* id; on a FETCH action it returns no parameter whatever the hint; on a   *)
(* POST action with hint image, jpg or jpeg exactly one image/jpeg         *)
(* parameter, and with hint text or no hint exactly one text/plain one.    *)
(***************************************************************************)
C7_IsAction(json, type) ==
    /\ json.kind = "object"
    /\ {"type", "linkId"} \subseteq DOMAIN json.fields
    /\ json.fields["type"] = JString(type)
    /\ json.fields["linkId"].t = "string"

C7_HasHint(json, hints) ==
    /\ "contentType" \in DOMAIN json.fields
    /\ json.fields["contentType"] \in {JString(h) : h \in hints}

C7_Is(param, json, mime) ==
    /\ param.linkId = json.fields["linkId"].v
    /\ param.type = mime

C7_ActionParams ==
    call.op = "getActionParams" =>
        LET json == call.action.json
        IN  /\ C7_IsAction(json, "fetch") => ret = <<>>
            /\ (C7_IsAction(json, "post") /\ C7_HasHint(json, {"mixed", "text+image"})) =>
                /\ Len(ret) = 2
                /\ C7_Is(ret[1], json, "text/plain")
                /\ C7_Is(ret[2], json, "image/jpeg")
            /\ (C7_IsAction(json, "post") /\ C7_HasHint(json, {"image", "jpg", "jpeg"})) =>
                Len(ret) = 1 /\ C7_Is(ret[1], json, "image/jpeg")
            /\ (/\ C7_IsAction(json, "post")
                /\ \/ C7_HasHint(json, {"text"})
                   \/ "contentType" \notin DOMAIN json.fields) =>
                Len(ret) = 1 /\ C7_Is(ret[1], json, "text/plain")

C7_Witness ==
    /\ call.op = "getActionParams"
    /\ C7_IsAction(call.action.json, "post")
    /\ C7_HasHint(call.action.json, {"mixed"})
    /\ Len(ret) = 2
    /\ ret[1].linkId = "*"

(***************************************************************************)
(* C8: with maxLinks > 0 and a role that may create links, createLink of   *)
(* a link id that is not registered succeeds while the registry holds      *)
(* fewer than maxLinks links (Created, COMPONENT_OK, one link more); the   *)
(* createLink issued when it holds maxLinks links reports the link id      *)
(* Destroyed, returns COMPONENT_ERROR and leaves the registry unchanged.   *)
(***************************************************************************)
C8_MayCreate ==
    /\ channelProperties.maxLinks > 0
    /\ channelProperties.linkSide \in {"LS_CREATOR", "LS_BOTH"}

C8_ReportsOnce(calls, c, status) ==
    calls = <<[cb |-> "onLinkStatusChanged", handle |-> c.handle, linkId |-> c.linkId,
               status |-> status]>>

C8_MaxLinks ==
    [][(call'.op = "createLink" /\ C8_MayCreate) =>
        /\ (/\ Cardinality(DOMAIN links) < channelProperties.maxLinks
            /\ call'.linkId \notin DOMAIN links) =>
                /\ C8_ReportsOnce(sdkCalls', call', "LINK_CREATED")
                /\ ret' = "COMPONENT_OK"
                /\ DOMAIN links' = DOMAIN links \cup {call'.linkId}
                /\ Cardinality(DOMAIN links') = Cardinality(DOMAIN links) + 1
        /\ Cardinality(DOMAIN links) >= channelProperties.maxLinks =>
                /\ C8_ReportsOnce(sdkCalls', call', "LINK_DESTROYED")
                /\ ret' = "COMPONENT_ERROR"
                /\ links' = links]_vars

C8_Witness ==
    /\ call.op = "createLink"
    /\ C8_MayCreate
    /\ channelProperties.maxLinks = 2
    /\ Cardinality(DOMAIN links) = 2
    /\ call.linkId \notin DOMAIN links
    /\ ret = "COMPONENT_ERROR"
    /\ C8_ReportsOnce(sdkCalls, call, "LINK_DESTROYED")

(***************************************************************************)
(* C9: after a doAction POST whose transmission the content host refused,  *)
(* doAction with the same action (same action id, same link target, the    *)
(* wildcard included) calls the content host again and reports a status    *)
(* on every supplied handle.                                               *)
(***************************************************************************)
C9_TransmissionFailed ==
    /\ call.op = "doAction"
    /\ ParseAction(call.action.json).type = "ACTION_POST"
    /\ Len(hostCalls) = 1
    /\ hostCalls[1].result = FALSE

C9_RetryTransmits ==
    [][(/\ C9_TransmissionFailed
        /\ call'.op = "doAction"
        /\ call'.action = call.action) =>
            /\ Len(hostCalls') = 1
            /\ Len(sdkCalls') = Len(call'.handles)]_vars

\* what the code does keep: the retry with an explicit link target
C9_ExplicitRetryTransmits ==
    [][(/\ C9_TransmissionFailed
        /\ ParseAction(call.action.json).linkId # "*"
        /\ call'.op = "doAction"
        /\ call'.action = call.action) =>
            /\ Len(hostCalls') = 1
            /\ hostCalls'[1].request = hostCalls[1].request
            /\ Len(sdkCalls') = Len(call'.handles)]_vars

(***************************************************************************)
(* C10: every doAction call for a POST action reports exactly one          *)
(* delivery status (PACKAGE_SENT or PACKAGE_FAILED_GENERIC) for each       *)
(* supplied handle before it returns, whatever the correlation tables and  *)
(* the registry hold.                                                      *)
(***************************************************************************)
C10_OneStatusPerHandle(calls, handles) ==
    \/ ReportsOnEvery(calls, handles, "PACKAGE_SENT")
    \/ ReportsOnEvery(calls, handles, "PACKAGE_FAILED_GENERIC")

C10_IsPost(c) == c.op = "doAction" /\ ParseAction(c.action.json).type = "ACTION_POST"

C10_EveryPostReports ==
    C10_IsPost(call) => C10_OneStatusPerHandle(sdkCalls, call.handles)

\* C10 as amended: the statuses are reported when the POST reaches a
\* registered link, and no status is reported otherwise
C10_Resolves(c) ==
    LET linkId == ParseAction(c.action.json).linkId
    IN  IF linkId = "*" THEN
            /\ c.action.actionId \in DOMAIN actionToLinkIdMap
            /\ actionToLinkIdMap[c.action.actionId] \in DOMAIN links
        ELSE linkId \in DOMAIN links

C10_ResolvedPostReports ==
    [][C10_IsPost(call') =>
        IF C10_Resolves(call') THEN C10_OneStatusPerHandle(sdkCalls', call'.handles)
        ELSE sdkCalls' = <<>>]_vars

C10_Witness ==
    /\ C10_IsPost(call)
    /\ ParseAction(call.action.json).linkId = "*"
    /\ Len(call.handles) = 2
    /\ ReportsOnEvery(sdkCalls, call.handles, "PACKAGE_SENT")

(***************************************************************************)
(* C11: getActionParams on a malformed action descriptor (empty JSON,      *)
(* unparseable JSON, a missing or ill-typed field) or on an unrecognized   *)
(* action type returns no parameter and reports COMPONENT_STATE_FAILED     *)
(* through updateState.                                                    *)
(***************************************************************************)
C11_IllFormed(json) ==
    \/ json.kind \in {"empty", "garbage"}
    \/ ~({"type", "linkId"} \subseteq DOMAIN json.fields)
    \/ json.fields["linkId"].t # "string"
    \/ "contentType" \in DOMAIN json.fields /\ json.fields["contentType"].t # "string"

C11_Unrecognized(json) ==
    /\ ~C11_IllFormed(json)
    /\ json.fields["type"] \notin {JString("post"), JString("fetch")}

C11_MalformedFails ==
    (/\ call.op = "getActionParams"
     /\ C11_IllFormed(call.action.json) \/ C11_Unrecognized(call.action.json)) =>
        /\ ret = <<>>
        /\ sdkCalls = <<UpdateState("COMPONENT_STATE_FAILED")>>

\* what getActionParams does: no parameter in each of these cases, and the
\* state FAILED for empty JSON and for an unrecognized type only
C11_FailedUnlessJsonException ==
    (/\ call.op = "getActionParams"
     /\ C11_IllFormed(call.action.json) \/ C11_Unrecognized(call.action.json)) =>
        /\ ret = <<>>
        /\ sdkCalls = IF \/ call.action.json.kind = "empty"
                         \/ C11_Unrecognized(call.action.json)
                      THEN <<UpdateState("COMPONENT_STATE_FAILED")>>
                      ELSE <<>>

(***************************************************************************)
(* C12: an enqueueContent call of the transport that fails with a protocol *)
(* error (malformed action JSON, unrecognized action type, a MIME type     *)
(* other than text/plain and image/jpeg) leaves the action-to-link table,  *)
(* the content-type table and every link's pending-content map as they     *)
(* were before the call.                                                   *)
(***************************************************************************)
C12_ProtocolError(c, r) == c.op = "enqueueContent" /\ r = "COMPONENT_ERROR"

C12_FailedEnqueueChangesNothing ==
    [][C12_ProtocolError(call', ret') =>
        /\ actionToLinkIdMap' = actionToLinkIdMap
        /\ contentTypeMap' = contentTypeMap
        /\ DOMAIN links' = DOMAIN links
        /\ \A l \in DOMAIN links : links'[l].contentQueue = links[l].contentQueue]_vars

\* what does hold: the pending-content maps are untouched, and so are the
\* tables when the JSON itself is rejected
C12_FailedEnqueueKeepsBuffers ==
    [][C12_ProtocolError(call', ret') =>
        /\ DOMAIN links' = DOMAIN links
        /\ \A l \in DOMAIN links : links'[l].contentQueue = links[l].contentQueue
        /\ ParseAction(call'.action.json).thrown =>
            /\ actionToLinkIdMap' = actionToLinkIdMap
            /\ contentTypeMap' = contentTypeMap]_vars

(***************************************************************************)
(* C13: when the preLinkCreate check fails in createLink, loadLinkAddress  *)
(* or createLinkFromAddress (the registry holds maxLinks links, or the     *)
(* role side is undefined or the one the call excludes), the host is told  *)
(* exactly once that the link id is Destroyed and nothing else changes:    *)
(* same registry, no new Link, same hashtag counter.                       *)
(***************************************************************************)
C13_Creates(c) == c.op \in {"createLink", "loadLinkAddress", "createLinkFromAddress"}

C13_ExcludedSide(c) == IF c.op = "loadLinkAddress" THEN "LS_CREATOR" ELSE "LS_LOADER"

C13_CheckFails(c) ==
    \/ /\ channelProperties.maxLinks > 0
       /\ Cardinality(DOMAIN links) >= channelProperties.maxLinks
    \/ channelProperties.linkSide \in {"LS_UNDEF", C13_ExcludedSide(c)}

C13_FailedCheckChangesNothing ==
    [][(C13_Creates(call') /\ C13_CheckFails(call')) =>
        /\ C8_ReportsOnce(sdkCalls', call', "LINK_DESTROYED")
        /\ hostCalls' = <<>>
        /\ links' = links
        /\ nextAvailableHashTag' = nextAvailableHashTag
        /\ UNCHANGED <<actionToLinkIdMap, contentTypeMap, channelProperties,
                       mastodonClient>>]_vars

C13_Witness ==
    /\ call.op = "createLink"
    /\ channelProperties = [maxLinks |-> 1, linkSide |-> "LS_CREATOR"]
    /\ DOMAIN links = {"L1"}
    /\ call.linkId = "L2"
    /\ nextAvailableHashTag = 1
    /\ C8_ReportsOnce(sdkCalls, call, "LINK_DESTROYED")

(***************************************************************************)
(* C14: a component whose role side is loader never registers a link       *)
(* through createLink or createLinkFromAddress, one whose role side is     *)
(* creator never registers a link through loadLinkAddress, and one whose   *)
(* role side is undefined never registers any link; each such call         *)
(* reports the link id Destroyed.                                          *)
(***************************************************************************)
C14_Incompatible(c) ==
    \/ /\ channelProperties.linkSide = "LS_LOADER"
       /\ c.op \in {"createLink", "createLinkFromAddress"}
    \/ /\ channelProperties.linkSide = "LS_CREATOR"
       /\ c.op = "loadLinkAddress"
    \/ /\ channelProperties.linkSide = "LS_UNDEF"
       /\ C13_Creates(c)

C14_RoleCompatibility ==
    [][/\ C14_Incompatible(call') =>
            /\ links' = links
            /\ C8_ReportsOnce(sdkCalls', call', "LINK_DESTROYED")
       /\ channelProperties.linkSide = "LS_UNDEF" => links' = EmptyMap]_vars

C14_Witness ==
    /\ call.op = "loadLinkAddress"
    /\ call.linkAddress = AddressObject("shared")
    /\ channelProperties = [maxLinks |-> 0, linkSide |-> "LS_CREATOR"]
    /\ DOMAIN links = {"L1"}
    /\ call.linkId = "L2"
    /\ C8_ReportsOnce(sdkCalls, call, "LINK_DESTROYED")

(***************************************************************************)
(* C15: doAction for a FETCH action with the wildcard target fetches the   *)
(* links of a registry snapshot in the snapshot's iteration order.  If a   *)
(* fetch returns COMPONENT_FATAL, doAction returns COMPONENT_FATAL at once *)
(* and fetches no further link.  Otherwise every link of the snapshot is   *)
(* fetched exactly once, and doAction returns COMPONENT_OK when every      *)
(* fetch returned COMPONENT_OK and else the error a fetch returned (the    *)
(* last one).                                                              *)
(***************************************************************************)
C15_Search(l) == [fn |-> "searchStatuses", hashtag |-> "#" \o links[l].address.hashtag]

\* the first k links of the order were fetched, in order, and no other
C15_FetchedPrefix(order, k, host) ==
    /\ Len(host) = k
    /\ \A i \in 1..k : host[i].request = C15_Search(order[i])

C15_Failing(order, status) == {i \in 1..Len(order) : status[order[i]] # "COMPONENT_OK"}

C15_Fatal(order, status) == {i \in 1..Len(order) : status[order[i]] = "COMPONENT_FATAL"}

C15_Min(S) == CHOOSE i \in S : \A j \in S : i <= j

C15_Max(S) == CHOOSE i \in S : \A j \in S : i >= j

C15_WildcardFetch ==
    [][(call'.op = "doAction" /\ "fetchStatus" \in DOMAIN call') =>
        LET order == call'.order
            status == call'.fetchStatus
        IN  /\ {order[i] : i \in 1..Len(order)} = DOMAIN links
            /\ Len(order) = Cardinality(DOMAIN links)
            /\ links' = links
            /\ IF C15_Fatal(order, status) # {} THEN
                    /\ ret' = "COMPONENT_FATAL"
                    /\ C15_FetchedPrefix(order, C15_Min(C15_Fatal(order, status)), hostCalls')
               ELSE IF C15_Failing(order, status) # {} THEN
                    /\ ret' = status[order[C15_Max(C15_Failing(order, status))]]
                    /\ ret' \notin {"COMPONENT_OK", "COMPONENT_FATAL"}
                    /\ C15_FetchedPrefix(order, Len(order), hostCalls')
               ELSE /\ ret' = "COMPONENT_OK"
                    /\ C15_FetchedPrefix(order, Len(order), hostCalls')]_vars

C15_Witness ==
    /\ call.op = "doAction"
    /\ "fetchStatus" \in DOMAIN call
    /\ Len(call.order) = 2
    /\ call.fetchStatus[call.order[1]] = "COMPONENT_ERROR"
    /\ call.fetchStatus[call.order[2]] = "COMPONENT_OK"
    /\ ret = "COMPONENT_ERROR"
    /\ Len(hostCalls) = 2
    /\ hostCalls[2].request = C15_Search(call.order[2])
    /\ Len(sdkCalls) = 4

(***************************************************************************)
(* C16: doAction for a POST action with the wildcard target and an action  *)
(* id that has no entry in the action-to-link table returns COMPONENT_OK,  *)
(* calls no content host, invokes no Link operation (no callback is made)  *)
(* and leaves the registry and every link's pending-content map unchanged. *)
(***************************************************************************)
C16_IsWildcardPost(c) == C10_IsPost(c) /\ ParseAction(c.action.json).linkId = "*"

C16_UnboundWildcardPost ==
    [][(/\ C16_IsWildcardPost(call')
        /\ call'.action.actionId \notin DOMAIN actionToLinkIdMap) =>
            /\ ret' = "COMPONENT_OK"
            /\ hostCalls' = <<>>
            /\ sdkCalls' = <<>>
            /\ links' = links
            /\ actionToLinkIdMap' = actionToLinkIdMap]_vars

\* reached only through the skip: a POST that gets to a Link reports on every handle
C16_Witness ==
    /\ C16_IsWildcardPost(call)
    /\ Len(call.handles) = 2
    /\ ret = "COMPONENT_OK"
    /\ sdkCalls = <<>>
    /\ hostCalls = <<>>
    /\ \E l \in DOMAIN links : call.action.actionId \in DOMAIN links[l].contentQueue

(***************************************************************************)
(* C17: after dequeueContent(action) of the transport returns for a POST   *)
(* action that enqueueContent bound to a link (named by the action, or by  *)
(* the action-to-link table for the wildcard), neither correlation table   *)
(* has an entry for the action id and the bound link holds no record for   *)
(* it; for an action of another type the correlation entries are cleared   *)
(* and no link's buffer is touched.                                        *)
(***************************************************************************)
C17_Parsed(c) == c.op = "dequeueContent" /\ ~ParseAction(c.action.json).thrown

\* the action id is bound, and to the link the action names if it names one
C17_Bound(c) ==
    /\ c.action.actionId \in DOMAIN actionToLinkIdMap
    /\ ParseAction(c.action.json).linkId \in {"*", actionToLinkIdMap[c.action.actionId]}

C17_Cleared(a) == a \notin DOMAIN actionToLinkIdMap' /\ a \notin DOMAIN contentTypeMap'

C17_DequeueClears ==
    [][C17_Parsed(call') =>
        LET a == call'.action.actionId
        IN  IF ParseAction(call'.action.json).type = "ACTION_POST" THEN
                C17_Bound(call') =>
                    /\ C17_Cleared(a)
                    /\ actionToLinkIdMap[a] \in DOMAIN links' =>
                        a \notin DOMAIN links'[actionToLinkIdMap[a]].contentQueue
                    /\ \A l \in DOMAIN links' \ {actionToLinkIdMap[a]} : links'[l] = links[l]
            ELSE /\ C17_Cleared(a)
                 /\ links' = links]_vars

C17_Witness ==
    /\ call.op = "dequeueContent"
    /\ ParseAction(call.action.json) = [thrown |-> FALSE, linkId |-> "*", type |-> "ACTION_POST"]
    /\ ret = "COMPONENT_OK"
    /\ DOMAIN links = {"L1", "L2"}
    /\ links["L1"].contentQueue = EmptyMap
    /\ call.action.actionId \in DOMAIN links["L2"].contentQueue
    /\ actionToLinkIdMap = EmptyMap
    /\ contentTypeMap = EmptyMap

(***************************************************************************)
(* C18: the registry is a map keyed by link id.  add(link) makes get of    *)
(* the link's id return that link, and the size grows by one only if the   *)
(* id was absent (an entry with that id is replaced); get of an absent id  *)
(* fails with std::out_of_range and changes nothing; remove of a present   *)
(* id returns that link, after which the id is absent and the size is one  *)
(* less; remove of an absent id returns the null pointer and changes       *)
(* nothing.  Entries of other ids are never affected.                      *)
(***************************************************************************)
C18_OthersKept(linkId) ==
    /\ DOMAIN links' \ {linkId} = DOMAIN links \ {linkId}
    /\ \A l \in DOMAIN links \ {linkId} : links'[l] = links[l]

C18_RegistryIsAMap ==
    [][/\ call'.op = "LinkMap.add" =>
            LET linkId == call'.link.linkId
            IN  /\ linkId \in DOMAIN links'
                /\ links'[linkId] = call'.link
                /\ Cardinality(DOMAIN links') =
                     Cardinality(DOMAIN links) + (IF linkId \in DOMAIN links THEN 0 ELSE 1)
                /\ C18_OthersKept(linkId)
       /\ call'.op = "LinkMap.get" =>
            /\ links' = links
            /\ ret' = IF call'.linkId \in DOMAIN links THEN links[call'.linkId]
                      ELSE "THROWS std::out_of_range"
            /\ (call.op = "LinkMap.add" /\ call.link.linkId = call'.linkId) =>
                    ret' = call.link
            /\ (call.op = "LinkMap.remove" /\ call.linkId = call'.linkId) =>
                    ret' = "THROWS std::out_of_range"
       /\ call'.op = "LinkMap.remove" =>
            IF call'.linkId \in DOMAIN links THEN
                /\ ret' = links[call'.linkId]
                /\ call'.linkId \notin DOMAIN links'
                /\ Cardinality(DOMAIN links') = Cardinality(DOMAIN links) - 1
                /\ C18_OthersKept(call'.linkId)
            ELSE
                /\ ret' = NullLink
                /\ links' = links]_vars

C18_Witness ==
    /\ call.op = "LinkMap.remove"
    /\ ret = Link("L2", [hashtag |-> "b"], TRUE)
    /\ DOMAIN links = {"L1", "L3"}
    /\ links["L1"].address.hashtag = "a"

(***************************************************************************)
(* C19: a registry snapshot is a point-in-time copy.  The map getMap       *)
(* returns holds exactly the entries the registry holds at that instant;   *)
(* add, remove and clear made on the registry afterwards never change it;  *)
(* and the wildcard fetch fetches exactly the links of its snapshot, each  *)
(* once: a link destroyed during the sweep is still fetched and a link     *)
(* created after the snapshot is not.                                      *)
(***************************************************************************)
C19_Sweeping(local) == local.op = "fetchAll" /\ local.pc \in SweepPcs

C19_Set(seq) == {seq[i] : i \in 1..Len(seq)}

C19_SnapshotIsACopy ==
    [][\A t \in Threads :
        /\ (Inside(threads[t], "getMap") /\ threads'[t].pc = "loop") =>
                threads'[t].linkMap = links
        /\ (C19_Sweeping(threads[t]) /\ C19_Sweeping(threads'[t])) =>
                threads'[t].linkMap = threads[t].linkMap
        /\ (C19_Sweeping(threads[t]) /\ threads[t].pc = "loop"
            /\ threads'[t].pc = "searching") =>
                /\ threads'[t].cur \in DOMAIN threads[t].linkMap
                /\ threads'[t].cur \notin C19_Set(threads[t].fetched)
                /\ hostCalls' = <<SearchRequest(threads[t].linkMap[threads'[t].cur])>>
        /\ (C19_Sweeping(threads[t]) /\ threads'[t].pc = "idle") =>
                /\ C19_Set(threads[t].fetched) = DOMAIN threads[t].linkMap
                /\ Len(threads[t].fetched) = Cardinality(DOMAIN threads[t].linkMap)]_vars

\* a sweep has returned: it fetched L1, which was destroyed meanwhile, and
\* not L2, which was loaded after the snapshot
C19_Witness ==
    /\ call.op = "return"
    /\ call.of = "fetchAll"
    /\ C19_Set(call.fetched) = {"L1"}
    /\ DOMAIN links = {"L2"}

(***************************************************************************)
(* C20: the registry operations (size, clear, add, get, getMap, remove)    *)
(* are mutually exclusive critical sections: at most one thread is inside  *)
(* one, and it is the holder of the mutex.  No thread holds the mutex      *)
(* while it is in a content-host call (a transmission, a search) or in     *)
(* the callbacks a Link makes: every registry operation has returned, and  *)
(* released the mutex, before the Link is used.                            *)
(***************************************************************************)
C20_InHostCall(local) == local.pc \in {"searching", "posting"}

C20_InLinkCallback(local) == local.pc \in {"delivering", "reporting"}

C21_BadAction(json) == ParseAction(json).thrown \/ ParseAction(json).type = "ACTION_UNDEF"

\* the link the action names: the explicit id, else the bound one, else none
C21_Target(c) ==
    LET linkId == ParseAction(c.action.json).linkId
    IN  IF linkId # "*" THEN linkId
        ELSE IF c.action.actionId \in DOMAIN actionToLinkIdMap
        THEN actionToLinkIdMap[c.action.actionId] ELSE ""

\* the call c, made in the current state, takes a failing path
C21_Fails(c, host) ==
    \/ /\ c.op \in {"createLink", "createLinkFromAddress"}
       /\ ~preLinkCreate(Plugin, c.handle, c.linkId, "LS_LOADER").ok
    \/ /\ c.op = "loadLinkAddress"
       /\ ~preLinkCreate(Plugin, c.handle, c.linkId, "LS_CREATOR").ok
    \/ /\ c.op \in {"loadLinkAddress", "createLinkFromAddress"}
       /\ LinkAddress_from_json(c.linkAddress).thrown
    \/ /\ c.op = "destroyLink"
       /\ ~LinkMap_has(links, c.linkId)
    \/ /\ c.op = "getActionParams"
       /\ C21_BadAction(c.action.json)
    \/ /\ c.op = "enqueueContent"
       /\ c.content # <<>>
       /\ \/ C21_BadAction(c.action.json)
          \/ /\ ParseAction(c.action.json).type = "ACTION_POST"
             /\ \/ ~LinkMap_has(links, c.params.linkId)
                \/ c.params.type \notin {"text/plain", "image/jpeg"}
    \/ /\ c.op = "dequeueContent"
       /\ \/ ParseAction(c.action.json).thrown
          \/ /\ ParseAction(c.action.json).type = "ACTION_POST"
             /\ ~LinkMap_has(links, C21_Target(c))
    \/ /\ c.op = "doAction"
       /\ \/ C21_BadAction(c.action.json)
          \/ /\ ParseAction(c.action.json).linkId # "*"
             /\ ~LinkMap_has(links, C21_Target(c))
          \/ /\ ParseAction(c.action.json).type = "ACTION_POST"
             /\ C21_Target(c) # ""
             /\ \/ ~HasRecord(C21_Target(c), c.action.actionId)
                \/ \E i \in 1..Len(host) : host[i].result = FALSE

\* the caller or the host is told of it
C21_Signalled(r, sdk) ==
    \/ r \in {"COMPONENT_ERROR", "COMPONENT_FATAL"}
    \/ \E i \in 1..Len(sdk) :
          sdk[i].cb \in {"onPackageStatusChanged", "onLinkStatusChanged", "updateState"}

C21_NoSilentFailure ==
    [][C21_Fails(call', hostCalls') => C21_Signalled(ret', sdkCalls')]_vars

(***************************************************************************)
(* C22: the Failed state is terminal: once COMPONENT_STATE_FAILED was      *)
(* reported to the host because of a bad action schema, no later operation *)
(* reports any other component state, in particular not STARTED from       *)
(* onUserInputReceived.                                                    *)
(***************************************************************************)
C22_FailedIsTerminal ==
    [][componentState = "COMPONENT_STATE_FAILED" =>
            componentState' = "COMPONENT_STATE_FAILED"]_vars

(***************************************************************************)
(* C23: operations invoked concurrently on different link ids and          *)
(* different action ids share no mutable state but the mutex-protected     *)
(* registry: no two operations that run at the same time (createLink,      *)
(* enqueueContent, dequeueContent, doAction) read or write a common        *)
(* unprotected variable.                                                   *)
(***************************************************************************)
\* the fields the thread's next step reads or writes with no lock held
C23_Unprotected(local) ==
    IF local.pc \in {"bind", "binding", "unbind", "unbinding"}
    THEN {"actionToLinkIdMap", "contentTypeMap"} ELSE {}

C23_NoSharedUnprotected ==
    \A t1, t2 \in Threads :
        (/\ t1 # t2
         /\ threads[t1].linkId # threads[t2].linkId) =>
            C23_Unprotected(threads[t1]) \cap C23_Unprotected(threads[t2]) = {}

(***************************************************************************)
(* C24: no per-action state persists after the action is executed or       *)
(* explicitly dequeued: once doAction (POST or FETCH) or dequeueContent    *)
(* has returned for action id a, neither table holds an entry for a and no *)
(* registered link buffers a record for a.                                 *)
(***************************************************************************)
\* a doAction of a POST or FETCH, or a dequeueContent, of a descriptor that parses
C24_Action(c) ==
    /\ c.op \in {"doAction", "dequeueContent"}
    /\ ~ParseAction(c.action.json).thrown
    /\ c.op = "doAction" => ParseAction(c.action.json).type \in {"ACTION_POST", "ACTION_FETCH"}

C24_Unbound(a) == a \notin DOMAIN actionToLinkIdMap' /\ a \notin DOMAIN contentTypeMap'

C25_BoundedFifo ==
    [][/\ Len(queue') <= max
       /\ (call'.op = "addMessage" /\ Len(queue) >= max /\ queue # <<>>) =>
            queue' = Append(Tail(queue), hash(call'.message))]_vars

(***************************************************************************)
(* C26: a create or load call that passes preLinkCreate registers the new  *)
(* link and then reports its status once: after createLink or              *)
(* createLinkFromAddress returns COMPONENT_OK the link id is registered    *)
(* and LINK_CREATED was reported, after loadLinkAddress returns            *)
(* COMPONENT_OK it is registered and LINK_LOADED was reported; LINK_CREATED *)
(* or LINK_LOADED is never reported for an id that is not registered at    *)
(* that moment; loadLinkAddresses reports LINK_DESTROYED, returns an error *)
(* and leaves the registry as it was.                                      *)
(***************************************************************************)
C26_Passes(c) == C13_Creates(c) /\ ~C13_CheckFails(c)

C26_Status(c) == IF c.op = "loadLinkAddress" THEN "LINK_LOADED" ELSE "LINK_CREATED"

C27_Rejected(c) ==
    /\ c.op = "Link.enqueueContent"
    /\ c.contentType \notin {"text/plain", "image/jpeg"}

C27_UnknownTypeMutatesNothing ==
    [][C27_Rejected(call') =>
        /\ ret' = "COMPONENT_ERROR"
        /\ sdkCalls' = <<>>
        /\ hostCalls' = <<>>
        /\ links' = links
        /\ (call'.actionId \in DOMAIN links'[call'.linkId].contentQueue)
              = (call'.actionId \in DOMAIN links[call'.linkId].contentQueue)
        /\ \A handles \in HandleVectors, success \in BOOLEAN :
              /\ Link_post(links'[call'.linkId], handles, call'.actionId, success)
                    = Link_post(links[call'.linkId], handles, call'.actionId, success)
              /\ ~HasRecord(call'.linkId, call'.actionId) =>
                    Link_post(links'[call'.linkId], handles, call'.actionId, success)
                        = Link_postNoContent(links[call'.linkId], handles)]_vars

\* a rejected enqueue for an action id that has no record, on a link that
\* buffers another action
C27_Witness ==
    /\ C27_Rejected(call)
    /\ call.contentType = "TEXT/PLAIN"
    /\ ret = "COMPONENT_ERROR"
    /\ call.actionId \notin DOMAIN links[call.linkId].contentQueue
    /\ links[call.linkId].contentQueue # EmptyMap

(***************************************************************************)
(* C28: findAndRemoveMessage(m): if the hash of m is in the window it      *)
(* returns true and removes the first matching hash together with every    *)
(* hash before it, leaving the hashes after it in their order; if the hash *)
(* is not in the window it returns false and leaves the window unchanged.  *)
(***************************************************************************)
C28_InWindow(h) == \E i \in 1..Len(queue) : queue[i] = h

C28_PrefixEviction ==
    [][call'.op = "findAndRemoveMessage" =>
        IF C28_InWindow(hash(call'.message)) THEN
            /\ ret' = TRUE
            /\ \E i \in 1..Len(queue) :
                  /\ queue[i] = hash(call'.message)
                  /\ \A j \in 1..(i - 1) : queue[j] # hash(call'.message)
                  /\ Len(queue') = Len(queue) - i
                  /\ \A k \in 1..Len(queue') : queue'[k] = queue[i + k]
        ELSE
            /\ ret' = FALSE
            /\ queue' = queue]_vars

\* a match behind which one hash was left, that hash being the searched one
\* again: only the first match and what preceded it were removed
C28_Witness ==
    /\ call.op = "findAndRemoveMessage"
    /\ ret = TRUE
    /\ queue = <<hash(call.message)>>
    /\ max = MaxMax

(***************************************************************************)
(* C29: enqueueContent of the transport never raises: for a POST action    *)
(* with non-empty content whose params.linkId is not registered (never     *)
(* created, or destroyed) it returns COMPONENT_ERROR; with empty content   *)
(* it returns COMPONENT_OK and changes no state at all.                    *)
(***************************************************************************)
C29_UnregisteredPost(c) ==
    /\ c.content # <<>>
    /\ ParseAction(c.action.json).type = "ACTION_POST"
    /\ ~LinkMap_has(links, c.params.linkId)

C29_EnqueueNeverRaises ==
    [][call'.op = "enqueueContent" =>
        /\ ret' \in {"COMPONENT_OK", "COMPONENT_ERROR"}
        /\ C29_UnregisteredPost(call') => ret' = "COMPONENT_ERROR"
        /\ call'.content = <<>> =>
            /\ ret' = "COMPONENT_OK"
            /\ sdkCalls' = <<>>
            /\ hostCalls' = <<>>
            /\ links' = links
            /\ UNCHANGED pluginVars]_vars

(***************************************************************************)
(* C30: at most one payload of each kind is buffered per action: a         *)
(* Link.enqueueContent for an action id and a kind that is already         *)
(* buffered overwrites the bytes of that slot (the last call wins) and     *)
(* leaves the other kind's slot and presence flag unchanged; no other      *)
(* operation changes a slot of a record it keeps; and a post transmits the *)
(* bytes the slots hold, that is the last-enqueued bytes of each kind.     *)
(***************************************************************************)
C30_Before(c) == QueueAt(links[c.linkId].contentQueue, c.actionId)

C30_After(c) == links'[c.linkId].contentQueue[c.actionId]

C30_LastEnqueueWins ==
    [][/\ (call'.op = "Link.enqueueContent" /\ call'.contentType = "text/plain") =>
            C30_After(call') = [C30_Before(call') EXCEPT !.textContent = call'.content,
                                                          !.hasText = TRUE]
       /\ (call'.op = "Link.enqueueContent" /\ call'.contentType = "image/jpeg") =>
            C30_After(call') = [C30_Before(call') EXCEPT !.imageContent = call'.content,
                                                          !.hasImage = TRUE]
       /\ \A l \in DOMAIN links, a \in ActionIds :
            (/\ HasRecord(l, a)
             /\ a \in DOMAIN links'[l].contentQueue
             /\ ~(call'.op = "Link.enqueueContent" /\ call'.linkId = l /\ call'.actionId = a)) =>
                links'[l].contentQueue[a] = links[l].contentQueue[a]
       /\ (IsLinkPost /\ hostCalls' # <<>>) =>
            /\ Len(hostCalls') = 1
            /\ HasRecord(call'.linkId, call'.actionId)
            /\ LET content == C30_Before(call')
                   request == hostCalls'[1].request
               IN  /\ content.hasText <=> request.fn \in {"postStatus", "postImageWithText"}
                   /\ content.hasImage <=> request.fn \in {"postImage", "postImageWithText"}
                   /\ content.hasText => request.text = content.textContent
                   /\ content.hasImage => request.image = content.imageContent]_vars

\* a text enqueue on a record whose image slot is filled: the text slot holds
\* the bytes of this call and the image slot kept its own
C30_Witness ==
    /\ call.op = "Link.enqueueContent"
    /\ call.contentType = "text/plain"
    /\ call.content = <<255, 216>>
    /\ HistoryOf(call.linkId, call.actionId) = "enqueued"
    /\ links[call.linkId].contentQueue[call.actionId] =
          [textContent |-> <<255, 216>>, imageContent |-> <<104, 105>>,
           hasText |-> TRUE, hasImage |-> TRUE]

(***************************************************************************)
(* C31: action ids on one link are independent: Link.enqueueContent,       *)
(* Link.dequeueContent and Link.post for action id a leave the record of   *)
(* every other action id as it was, and Link.fetch leaves the whole        *)
(* pending-content map as it was; so what an operation on a returns,       *)
(* reports, transmits and leaves buffered for a is what it would on a link *)
(* that buffers nothing but a's record, whatever was done on other ids.    *)
(***************************************************************************)
\* the link with every record but the one of action id a taken away
C31_Alone(link, a) ==
    [link EXCEPT !.contentQueue = [x \in (DOMAIN link.contentQueue) \cap {a} |->
                                      link.contentQueue[x]]]

\* the operation of the call c, run on link
C31_Run(c, link, success) ==
    CASE c.op = "Link.enqueueContent" ->
            Link_enqueueContent(link, c.actionId, c.content, c.contentType)
      [] c.op = "Link.dequeueContent" -> Link_dequeueContent(link, c.actionId)
      [] OTHER -> Link_post(link, c.handles, c.actionId, success)

C31_OnAction(c) == c.op \in {"Link.enqueueContent", "Link.dequeueContent", "Link.post"}

C31_ActionIdsIndependent ==
    [][/\ C31_OnAction(call') =>
            /\ \A b \in ActionIds \ {call'.actionId} :
                  /\ (b \in DOMAIN links'[call'.linkId].contentQueue)
                        = (b \in DOMAIN links[call'.linkId].contentQueue)
                  /\ QueueAt(links'[call'.linkId].contentQueue, b)
                        = QueueAt(links[call'.linkId].contentQueue, b)
            /\ \A success \in BOOLEAN :
                  (hostCalls' = <<>> \/ hostCalls'[1].result = success) =>
                      LET r == C31_Run(call', C31_Alone(links[call'.linkId], call'.actionId),
                                       success)
                      IN  /\ ret' = r.ret
                          /\ sdkCalls' = r.sdkCalls
                          /\ hostCalls' = r.hostCalls
                          /\ C31_Alone(links'[call'.linkId], call'.actionId).contentQueue
                                = r.link.contentQueue
       /\ call'.op = "Link.fetch" =>
            links'[call'.linkId].contentQueue = links[call'.linkId].contentQueue]_vars

\* the record of action 7 was transmitted and erased while action 8 was
\* buffered, and the record of 8 is still there
C31_Witness ==
    /\ call.op = "Link.post"
    /\ call.actionId = 7
    /\ ret = "COMPONENT_OK"
    /\ hostCalls # <<>>
    /\ HistoryOf("L1", 7) = "sent"
    /\ HistoryOf("L1", 8) = "enqueued"
    /\ DOMAIN links["L1"].contentQueue = {8}

(***************************************************************************)
(* C32: destroyLink(id) on a registered id removes exactly that link from  *)
(* the registry and returns COMPONENT_OK, after which get(id),             *)
(* enqueueContent and explicit-target doAction for that id fail;           *)
(* destroyLink on an id that is not registered returns COMPONENT_ERROR and *)
(* leaves the registry unchanged, so a second destroyLink of the same id   *)
(* returns an error.                                                       *)
(***************************************************************************)
\* the fields of the object after the step
C32_After ==
    [links |-> links', actionToLinkIdMap |-> actionToLinkIdMap',
     contentTypeMap |-> contentTypeMap', nextAvailableHashTag |-> nextAvailableHashTag',
     channelProperties |-> channelProperties', mastodonClient |-> mastodonClient',
     serverReceived |-> serverReceived', tokenReceived |-> tokenReceived']

\* the descriptors that name the link id itself
C32_Explicit(id) == {ActionObject(JString(t), JString(id)) : t \in {"post", "fetch"}}

\* what destroyLink itself does, and what get, a second destroyLink and an
\* explicit-target doAction do on the state it leaves
C32_Destroys ==
    /\ IF LinkMap_has(links, call'.linkId) THEN
            /\ ret' = "COMPONENT_OK"
            /\ links' = MapErase(links, call'.linkId)
       ELSE
            /\ ret' = "COMPONENT_ERROR"
            /\ links' = links
    /\ sdkCalls' = <<>> /\ hostCalls' = <<>>
    /\ UNCHANGED pluginVars
    /\ ~LinkMap_has(links', call'.linkId)
    /\ Plugin_destroyLink(C32_After, call'.handle, call'.linkId)
          = Result(C32_After, "COMPONENT_ERROR", <<>>, <<>>)
    /\ \A handles \in HandleVectors, json \in C32_Explicit(call'.linkId) :
          \A env \in Envs(C32_After, [actionId |-> 7, json |-> json]) :
              LET r == Plugin_doAction(C32_After, handles, [actionId |-> 7, json |-> json], env)
              IN  /\ r.ret = "COMPONENT_ERROR"
                  /\ r.hostCalls = <<>>
                  /\ r.p.links = links'

\* the enqueueContent calls whose EncodingParameters name the link id
C32_Enqueues(id, jsons, contents) ==
    {Plugin_enqueueContent(C32_After, EncodingParameters(id, type),
                           [actionId |-> 7, json |-> json], content) :
        type \in MimeTypes, json \in jsons, content \in contents}

C32_DestroyedLinkFails ==
    [][call'.op = "destroyLink" =>
        /\ C32_Destroys
        /\ \A r \in C32_Enqueues(call'.linkId, EnqueueJsons, PluginContents) :
              r.ret # "COMPONENT_OK"]_vars

\* C32 as amended: an enqueueContent of content for a POST on that id raises
\* std::out_of_range; one with no content, or for a FETCH, still returns
\* COMPONENT_OK, and none registers the id again
C32_DestroyedLinkIsGone ==
    [][call'.op = "destroyLink" =>
        /\ C32_Destroys
        /\ \A r \in C32_Enqueues(call'.linkId, {ActionObject(JString("post"), JString("*"))},
                                 PluginContents \ {<<>>}) :
              r.ret = "THROWS std::out_of_range"
        /\ \A r \in C32_Enqueues(call'.linkId, {ActionObject(JString("fetch"), JString("*"))},
                                 PluginContents \ {<<>>})
                    \cup C32_Enqueues(call'.linkId, EnqueueJsons, {<<>>}) :
              r.ret = "COMPONENT_OK"
        /\ \A r \in C32_Enqueues(call'.linkId, EnqueueJsons, PluginContents) :
              r.p.links = links']_vars

\* L1 was destroyed while L2 stays registered
C32_Witness ==
    /\ call.op = "destroyLink"
    /\ call.linkId = "L1"
    /\ ret = "COMPONENT_OK"
    /\ DOMAIN links = {"L2"}
    /\ nextAvailableHashTag = 2

(***************************************************************************)
(* C33: addresses synthesized by createLink are unique: over any sequence  *)
(* of createLink calls the numeric hashtag suffixes of the links created   *)
(* are strictly increasing in call order, so no two links created by       *)
(* createLink share a hashtag, a link created after an earlier one was     *)
(* destroyed included.  Stated on the counter: it never decreases, a       *)
(* successful createLink issues its value and advances it by one, nothing  *)
(* else issues a hashtag or advances it, and every hashtag issued so far   *)
(* is below it.                                                            *)
(***************************************************************************)
\* the hashtag is one that createLink synthesizes
C33_Issued(hashtag) == \E n \in 0..MaxHashTag : hashtag = "pqrstuv" \o to_string(n)

\* its numeric suffix
C33_Suffix(hashtag) == CHOOSE n \in 0..MaxHashTag : hashtag = "pqrstuv" \o to_string(n)

C33_Created(c, r) == c.op = "createLink" /\ r = "COMPONENT_OK"

C33_UniqueHashtags ==
    [][/\ nextAvailableHashTag' >= nextAvailableHashTag
       /\ \A m, n \in 0..(MaxHashTag + 10) : to_string(m) = to_string(n) => m = n
       /\ C33_Created(call', ret') =>
            /\ call'.linkId \in DOMAIN links'
            /\ links'[call'.linkId].address.hashtag
                  = "pqrstuv" \o to_string(nextAvailableHashTag)
            /\ nextAvailableHashTag' = nextAvailableHashTag + 1
            /\ \A l \in DOMAIN links' \ {call'.linkId} :
                  links'[l].address.hashtag # links'[call'.linkId].address.hashtag
       /\ ~C33_Created(call', ret') =>
            /\ nextAvailableHashTag' = nextAvailableHashTag
            /\ \A l \in DOMAIN links' :
                  C33_Issued(links'[l].address.hashtag) =>
                      l \in DOMAIN links /\ links[l].address = links'[l].address
       /\ \A l \in DOMAIN links' :
            C33_Issued(links'[l].address.hashtag) =>
                C33_Suffix(links'[l].address.hashtag) < nextAvailableHashTag'
       /\ \A l1, l2 \in DOMAIN links' :
            (/\ l1 # l2
             /\ C33_Issued(links'[l1].address.hashtag)) =>
                links'[l1].address.hashtag # links'[l2].address.hashtag]_vars

\* on a channel limited to one link, the second link that createLink made:
\* the first one was destroyed, and its suffix 0 was not issued again
C33_Witness ==
    /\ call.op = "createLink"
    /\ ret = "COMPONENT_OK"
    /\ channelProperties.maxLinks = 1
    /\ nextAvailableHashTag = 2
    /\ DOMAIN links = {call.linkId}
    /\ links[call.linkId].address.hashtag = "pqrstuv1"

(***************************************************************************)
(* C34: in every state reached by sequential calls of the transport the    *)
(* action-to-link table and the content-type table have the same action    *)
(* ids as keys: enqueueContent adds its action id to both or to neither,   *)
(* dequeueContent and doAction remove theirs from both or from neither,    *)
(* and no call touches the entries of another action id.                   *)
(***************************************************************************)
C34_Keys == <<DOMAIN actionToLinkIdMap, DOMAIN contentTypeMap>>

C34_SameKeys ==
    [][/\ DOMAIN actionToLinkIdMap = DOMAIN contentTypeMap
       /\ DOMAIN actionToLinkIdMap' = DOMAIN contentTypeMap'
       /\ call'.op = "enqueueContent" =>
            \/ UNCHANGED <<actionToLinkIdMap, contentTypeMap>>
            \/ /\ actionToLinkIdMap' = MapPut(actionToLinkIdMap, call'.action.actionId,
                                              call'.params.linkId)
               /\ contentTypeMap' = MapPut(contentTypeMap, call'.action.actionId,
                                           call'.params.type)
       /\ call'.op \in {"dequeueContent", "doAction"} =>
            \/ UNCHANGED <<actionToLinkIdMap, contentTypeMap>>
            \/ /\ call'.action.actionId \in DOMAIN actionToLinkIdMap
               /\ actionToLinkIdMap' = MapErase(actionToLinkIdMap, call'.action.actionId)
               /\ contentTypeMap' = MapErase(contentTypeMap, call'.action.actionId)
       /\ call'.op \notin {"enqueueContent", "dequeueContent", "doAction"} =>
            UNCHANGED <<actionToLinkIdMap, contentTypeMap>>]_vars

\* a wildcard dequeue of a bound POST returned COMPONENT_OK: it found the
\* binding and removed both entries
C34_Witness ==
    /\ call.op = "dequeueContent"
    /\ ParseAction(call.action.json) = [thrown |-> FALSE, linkId |-> "*", type |-> "ACTION_POST"]
    /\ ret = "COMPONENT_OK"
    /\ C34_Keys = <<{}, {}>>
    /\ links # EmptyMap

(***************************************************************************)
(* C35: every record in a link's pending-content map has at least one      *)
(* presence flag set (hasText or hasImage), in every reachable state; so   *)
(* the branch of Link.post for a record with neither is not taken, and     *)
(* Link.post returns COMPONENT_ERROR only after a content-host call that   *)
(* reported a failure.                                                     *)
(***************************************************************************)
C35_Flagged(linkMap) ==
    \A l \in DOMAIN linkMap :
        \A a \in DOMAIN linkMap[l].contentQueue :
            linkMap[l].contentQueue[a].hasText \/ linkMap[l].contentQueue[a].hasImage

C35_RecordsAreFlagged ==
    [][/\ C35_Flagged(links)
       /\ C35_Flagged(links')
       /\ (IsLinkPost /\ HasRecord(call'.linkId, call'.actionId)) =>
            /\ Link_postCall(links[call'.linkId].contentQueue[call'.actionId], "#") # <<>>
            /\ Len(hostCalls') = 1
       /\ (IsLinkPost /\ ret' = "COMPONENT_ERROR") =>
            /\ HasRecord(call'.linkId, call'.actionId)
            /\ HostAnswered(FALSE)
       /\ (IsLinkPost /\ ret' # "COMPONENT_ERROR") =>
            /\ ret' = "COMPONENT_OK"
            /\ hostCalls' = <<>> \/ HostAnswered(TRUE)]_vars

\* the post of a record that holds an image only and no text was refused
C35_Witness ==
    /\ call.op = "Link.post"
    /\ ret = "COMPONENT_ERROR"
    /\ hostCalls # <<>>
    /\ hostCalls[1].request.fn = "postImage"
    /\ HasRecord(call.linkId, call.actionId)
    /\ ~links[call.linkId].contentQueue[call.actionId].hasText
    /\ links[call.linkId].contentQueue[call.actionId].imageContent = <<>>

(***************************************************************************)
(* C36: with maxLinks > 0 the number of links in the registry never        *)
(* exceeds maxLinks in any reachable state, also when the calls that       *)
(* create and load links come from different host threads at once.         *)
(***************************************************************************)
C36_WithinCapacity ==
    channelProperties.maxLinks > 0 => LinkMap_size(links) <= channelProperties.maxLinks

(***************************************************************************)
(* C37: every Link in the registry holds a usable (non-null) content-host  *)
(* client: no link is created or loaded before both user inputs were       *)
(* received and the client was constructed, so that Link.post and          *)
(* Link.fetch never run against a client that does not exist; and the      *)
(* client is constructed, and STARTED reported, at most once.              *)
(***************************************************************************)
C37_Started(sdk) ==
    \E i \in 1..Len(sdk) :
        sdk[i].cb = "updateState" /\ sdk[i].state = "COMPONENT_STATE_STARTED"

C37_LinksHoldAClient ==
    [][/\ \A l \in DOMAIN links' : links'[l].mastodonClient
       /\ \A l \in DOMAIN links' :
            (l \notin DOMAIN links \/ links'[l] # links[l]) =>
                mastodonClient /\ serverReceived /\ tokenReceived
       /\ mastodonClient => mastodonClient'
       /\ C37_Started(sdkCalls') <=> (~mastodonClient /\ mastodonClient')
       /\ mastodonClient' => serverReceived' /\ tokenReceived']_vars

(***************************************************************************)
(* C38: if the link an action was bound to is destroyed before the action  *)
(* executes, doAction for that POST action (with the wildcard or with the  *)
(* link's id as its target) returns COMPONENT_ERROR without raising, makes *)
(* no content-host call, and removes the action's entries from both        *)
(* correlation tables, so that no entry of the action naming the destroyed *)
(* link survives the call.                                                 *)
(***************************************************************************)
\* the POST c is bound to a link that is not registered, and targets it
C38_BoundToMissingLink(c) ==
    /\ C10_IsPost(c)
    /\ c.action.actionId \in DOMAIN actionToLinkIdMap
    /\ ~LinkMap_has(links, actionToLinkIdMap[c.action.actionId])
    /\ ParseAction(c.action.json).linkId \in {"*", actionToLinkIdMap[c.action.actionId]}

C39_Replaces(c, r) == C26_Passes(c) /\ r = "COMPONENT_OK" /\ c.linkId \in DOMAIN links

\* the explicit-target POST of action id a on link id
C39_Post(id, a) == [actionId |-> a, json |-> ActionObject(JString("post"), JString(id))]

C39_ReplacedByFreshLink ==
    [][C39_Replaces(call', ret') =>
        /\ LinkMap_size(links') = LinkMap_size(links)
        /\ DOMAIN links' = DOMAIN links
        /\ \A l \in DOMAIN links \ {call'.linkId} : links'[l] = links[l]
        /\ links'[call'.linkId].linkId = call'.linkId
        /\ links'[call'.linkId].contentQueue = EmptyMap
        /\ \A a \in Buffered(links, call'.linkId), handles \in HandleVectors :
              /\ \A success \in BOOLEAN :
                    LET r == Link_post(links'[call'.linkId], handles, a, success)
                    IN  /\ ReportsOnEvery(r.sdkCalls, handles, "PACKAGE_FAILED_GENERIC")
                        /\ r.hostCalls = <<>>
              /\ \A env \in Envs(C32_After, C39_Post(call'.linkId, a)) :
                    LET r == Plugin_doAction(C32_After, handles,
                                             C39_Post(call'.linkId, a), env)
                    IN  /\ ReportsOnEvery(r.sdkCalls, handles, "PACKAGE_FAILED_GENERIC")
                        /\ r.hostCalls = <<>>]_vars

\* loadLinkAddress replaced the link that createLink had made and that
\* buffered action 7
C39_Witness ==
    /\ call.op = "loadLinkAddress"
    /\ ret = "COMPONENT_OK"
    /\ call.replaced = {7}
    /\ nextAvailableHashTag = 1
    /\ DOMAIN links = {call.linkId}
    /\ links[call.linkId].contentQueue = EmptyMap
    /\ links[call.linkId].address.hashtag = "shared"

(***************************************************************************)
(* C40: dequeueContent of the transport for an action with the wildcard    *)
(* target and no entry in the action-to-link table returns COMPONENT_ERROR *)
(* without raising and changes no state: both correlation tables, the      *)
(* registry and every link's pending-content map are unchanged.            *)
(***************************************************************************)
C40_UnboundWildcard(c) ==
    /\ C17_Parsed(c)
    /\ ParseAction(c.action.json).linkId = "*"
    /\ c.action.actionId \notin DOMAIN actionToLinkIdMap

====
